---- MODULE Spec2Model ----
(***************************************************************************)
(* GraniteRCA: the error classification and context-scoring pipeline of    *)
(* perform_enhanced_rca (src/src/rca_core.py) and the prompt composer      *)
(* build_enhanced_prompt (src/src/rca_utils.py).                           *)
(*                                                                         *)
(* Text is a sequence of one-character strings.  A regular expression of   *)
(* the pattern tables is a sequence of alternatives (the operands of the   *)
(* top-level "|"), and an alternative is a sequence of literals joined by  *)
(* ".*" (any run of characters other than a newline, greedy).  These are   *)
(* the only regex constructs the tables use.                               *)
(***************************************************************************)
EXTENDS Integers, Sequences, FiniteSets, TLC

(***************************************************************************)
(* Characters, str.lower() and re.IGNORECASE                               *)
(***************************************************************************)
LowerOf ==
  [c \in {"A","B","C","D","E","F","G","H","I","J","K","L","M",
          "N","O","P","Q","R","S","T","U","V","W","X","Y","Z"} |->
     CASE c = "A" -> "a" [] c = "B" -> "b" [] c = "C" -> "c" [] c = "D" -> "d"
       [] c = "E" -> "e" [] c = "F" -> "f" [] c = "G" -> "g" [] c = "H" -> "h"
       [] c = "I" -> "i" [] c = "J" -> "j" [] c = "K" -> "k" [] c = "L" -> "l"
       [] c = "M" -> "m" [] c = "N" -> "n" [] c = "O" -> "o" [] c = "P" -> "p"
       [] c = "Q" -> "q" [] c = "R" -> "r" [] c = "S" -> "s" [] c = "T" -> "t"
       [] c = "U" -> "u" [] c = "V" -> "v" [] c = "W" -> "w" [] c = "X" -> "x"
       [] c = "Y" -> "y" [] c = "Z" -> "z"]

LowerChar(c) ==
  IF c \in DOMAIN LowerOf THEN LowerOf[c] ELSE c

\* str.lower()
Lower(text) ==
  [i \in 1..Len(text) |-> LowerChar(text[i])]

\* character comparison under re.IGNORECASE
CharEq(a, b) ==
  LowerChar(a) = LowerChar(b)

(***************************************************************************)
(* The pattern taxonomy (SystemLogScanner.__init__).  The tables are       *)
(* sequences, in the insertion order of the source dictionaries.           *)
(***************************************************************************)
error_patterns ==
  <<
    [error_type |-> "kernel", patterns |-> <<
      \* r'kernel:.*error|panic|oops|bug|fault'
      << << <<"k","e","r","n","e","l",":">>, <<"e","r","r","o","r">> >>,
         << <<"p","a","n","i","c">> >>,
         << <<"o","o","p","s">> >>,
         << <<"b","u","g">> >>,
         << <<"f","a","u","l","t">> >> >>,
      \* r'Call Trace:'
      << << <<"C","a","l","l"," ","T","r","a","c","e",":">> >> >>,
      \* r'segfault'
      << << <<"s","e","g","f","a","u","l","t">> >> >>,
      \* r'unable to handle kernel paging request'
      << << <<"u","n","a","b","l","e"," ","t","o"," ","h","a","n","d","l","e"," ","k","e","r","n","e","l"," ","p","a","g","i","n","g"," ","r","e","q","u","e","s","t">> >> >>,
      \* r'kernel NULL pointer dereference'
      << << <<"k","e","r","n","e","l"," ","N","U","L","L"," ","p","o","i","n","t","e","r"," ","d","e","r","e","f","e","r","e","n","c","e">> >> >>
    >>],
    [error_type |-> "selinux", patterns |-> <<
      \* r'avc:.*denied'
      << << <<"a","v","c",":">>, <<"d","e","n","i","e","d">> >> >>,
      \* r'SELinux.*denied'
      << << <<"S","E","L","i","n","u","x">>, <<"d","e","n","i","e","d">> >> >>,
      \* r'type=AVC.*denied'
      << << <<"t","y","p","e","=","A","V","C">>, <<"d","e","n","i","e","d">> >> >>,
      \* r'scontext=.*tcontext=.*denied'
      << << <<"s","c","o","n","t","e","x","t","=">>, <<"t","c","o","n","t","e","x","t","=">>, <<"d","e","n","i","e","d">> >> >>
    >>],
    [error_type |-> "java", patterns |-> <<
      \* r'java\..*Exception'
      << << <<"j","a","v","a",".">>, <<"E","x","c","e","p","t","i","o","n">> >> >>,
      \* r'Exception in thread'
      << << <<"E","x","c","e","p","t","i","o","n"," ","i","n"," ","t","h","r","e","a","d">> >> >>,
      \* r'OutOfMemoryError'
      << << <<"O","u","t","O","f","M","e","m","o","r","y","E","r","r","o","r">> >> >>,
      \* r'StackOverflowError'
      << << <<"S","t","a","c","k","O","v","e","r","f","l","o","w","E","r","r","o","r">> >> >>,
      \* r'ClassNotFoundException'
      << << <<"C","l","a","s","s","N","o","t","F","o","u","n","d","E","x","c","e","p","t","i","o","n">> >> >>,
      \* r'NoClassDefFoundError'
      << << <<"N","o","C","l","a","s","s","D","e","f","F","o","u","n","d","E","r","r","o","r">> >> >>
    >>],
    [error_type |-> "systemd", patterns |-> <<
      \* r'systemd.*failed'
      << << <<"s","y","s","t","e","m","d">>, <<"f","a","i","l","e","d">> >> >>,
      \* r'Failed to start'
      << << <<"F","a","i","l","e","d"," ","t","o"," ","s","t","a","r","t">> >> >>,
      \* r'Unit.*failed'
      << << <<"U","n","i","t">>, <<"f","a","i","l","e","d">> >> >>,
      \* r'Service.*failed'
      << << <<"S","e","r","v","i","c","e">>, <<"f","a","i","l","e","d">> >> >>
    >>],
    [error_type |-> "network", patterns |-> <<
      \* r'connection.*refused|timeout|reset'
      << << <<"c","o","n","n","e","c","t","i","o","n">>, <<"r","e","f","u","s","e","d">> >>,
         << <<"t","i","m","e","o","u","t">> >>,
         << <<"r","e","s","e","t">> >> >>,
      \* r'network.*unreachable'
      << << <<"n","e","t","w","o","r","k">>, <<"u","n","r","e","a","c","h","a","b","l","e">> >> >>,
      \* r'DNS.*failed'
      << << <<"D","N","S">>, <<"f","a","i","l","e","d">> >> >>,
      \* r'socket.*error'
      << << <<"s","o","c","k","e","t">>, <<"e","r","r","o","r">> >> >>
    >>],
    [error_type |-> "boot", patterns |-> <<
      \* r'failed to mount'
      << << <<"f","a","i","l","e","d"," ","t","o"," ","m","o","u","n","t">> >> >>,
      \* r'boot.*error|failed'
      << << <<"b","o","o","t">>, <<"e","r","r","o","r">> >>,
         << <<"f","a","i","l","e","d">> >> >>,
      \* r'initramfs.*error'
      << << <<"i","n","i","t","r","a","m","f","s">>, <<"e","r","r","o","r">> >> >>,
      \* r'grub.*error'
      << << <<"g","r","u","b">>, <<"e","r","r","o","r">> >> >>
    >>],
    [error_type |-> "container", patterns |-> <<
      \* r'container.*failed|error|crash'
      << << <<"c","o","n","t","a","i","n","e","r">>, <<"f","a","i","l","e","d">> >>,
         << <<"e","r","r","o","r">> >>,
         << <<"c","r","a","s","h">> >> >>,
      \* r'pod.*failed|error|crash'
      << << <<"p","o","d">>, <<"f","a","i","l","e","d">> >>,
         << <<"e","r","r","o","r">> >>,
         << <<"c","r","a","s","h">> >> >>,
      \* r'docker.*error|failed'
      << << <<"d","o","c","k","e","r">>, <<"e","r","r","o","r">> >>,
         << <<"f","a","i","l","e","d">> >> >>,
      \* r'podman.*error|failed'
      << << <<"p","o","d","m","a","n">>, <<"e","r","r","o","r">> >>,
         << <<"f","a","i","l","e","d">> >> >>
    >>]
  >>

impact_indicators ==
  <<
    [level |-> "critical", patterns |-> <<
      \* r'panic|fatal|crash|segfault'
      << << <<"p","a","n","i","c">> >>,
         << <<"f","a","t","a","l">> >>,
         << <<"c","r","a","s","h">> >>,
         << <<"s","e","g","f","a","u","l","t">> >> >>,
      \* r'data.*loss|corrupt'
      << << <<"d","a","t","a">>, <<"l","o","s","s">> >>,
         << <<"c","o","r","r","u","p","t">> >> >>,
      \* r'system.*halt|shutdown'
      << << <<"s","y","s","t","e","m">>, <<"h","a","l","t">> >>,
         << <<"s","h","u","t","d","o","w","n">> >> >>,
      \* r'kernel.*panic'
      << << <<"k","e","r","n","e","l">>, <<"p","a","n","i","c">> >> >>,
      \* r'out of memory'
      << << <<"o","u","t"," ","o","f"," ","m","e","m","o","r","y">> >> >>,
      \* r'disk.*full'
      << << <<"d","i","s","k">>, <<"f","u","l","l">> >> >>
    >>],
    [level |-> "high", patterns |-> <<
      \* r'failed to start'
      << << <<"f","a","i","l","e","d"," ","t","o"," ","s","t","a","r","t">> >> >>,
      \* r'service.*down'
      << << <<"s","e","r","v","i","c","e">>, <<"d","o","w","n">> >> >>,
      \* r'connection.*refused'
      << << <<"c","o","n","n","e","c","t","i","o","n">>, <<"r","e","f","u","s","e","d">> >> >>,
      \* r'authentication.*failed'
      << << <<"a","u","t","h","e","n","t","i","c","a","t","i","o","n">>, <<"f","a","i","l","e","d">> >> >>,
      \* r'permission.*denied'
      << << <<"p","e","r","m","i","s","s","i","o","n">>, <<"d","e","n","i","e","d">> >> >>
    >>],
    [level |-> "medium", patterns |-> <<
      \* r'warning'
      << << <<"w","a","r","n","i","n","g">> >> >>,
      \* r'degraded'
      << << <<"d","e","g","r","a","d","e","d">> >> >>,
      \* r'slow'
      << << <<"s","l","o","w">> >> >>,
      \* r'timeout'
      << << <<"t","i","m","e","o","u","t">> >> >>,
      \* r'retry'
      << << <<"r","e","t","r","y">> >> >>
    >>],
    [level |-> "low", patterns |-> <<
      \* r'notice'
      << << <<"n","o","t","i","c","e">> >> >>,
      \* r'info'
      << << <<"i","n","f","o">> >> >>,
      \* r'debug'
      << << <<"d","e","b","u","g">> >> >>
    >>]
  >>

\* the log text of quick mode (line 354)
QuickSentinel ==
  <<"N","o"," ","s","p","e","c","i","f","i","c"," ","l","o","g"," ","f","i","l","e"," ","p","r","o","v","i","d","e","d"," ","-"," ","a","n","a","l","y","s","i","s"," ","b","a","s","e","d"," ","o","n"," ","e","r","r","o","r"," ","d","e","s","c","r","i","p","t","i","o","n"," ","a","n","d"," ","s","y","s","t","e","m"," ","c","o","n","t","e","x","t",".">>

(***************************************************************************)
(* Regular-expression matching as the re module performs it                *)
(***************************************************************************)
\* the literal lit occurs in text at position pos
LitAt(lit, text, pos) ==
  /\ pos + Len(lit) - 1 <= Len(text)
  /\ \A k \in 1..Len(lit) : CharEq(text[pos + k - 1], lit[k])

SetMax(S) ==
  CHOOSE m \in S : \A x \in S : x <= m

SetMin(S) ==
  CHOOSE m \in S : \A x \in S : m <= x

\* the first position >= pos holding a newline, or Len(text) + 1
LineEnd(text, pos) ==
  SetMin({p \in pos..(Len(text) + 1) : p = Len(text) + 1 \/ text[p] = "\n"})

\* one alternative  L1.*L2.*...Ln  matched at pos: the position just after
\* the match, or 0 when it does not match there.  ".*" is greedy and does
\* not cross a newline.
RECURSIVE AltEnd(_, _, _)
AltEnd(alt, text, pos) ==
  IF ~LitAt(alt[1], text, pos) THEN 0
  ELSE LET e == pos + Len(alt[1]) IN
       IF Len(alt) = 1 THEN e
       ELSE LET cands == {q \in e..LineEnd(text, e) :
                            AltEnd(Tail(alt), text, q) # 0}
            IN  IF cands = {} THEN 0
                ELSE AltEnd(Tail(alt), text, SetMax(cands))

\* the whole pattern matched at pos: the first alternative (in order) that
\* matches decides; 0 when none does
RECURSIVE PatEndFrom(_, _, _, _)
PatEndFrom(pat, text, pos, a) ==
  IF a > Len(pat) THEN 0
  ELSE LET e == AltEnd(pat[a], text, pos) IN
       IF e # 0 THEN e ELSE PatEndFrom(pat, text, pos, a + 1)

PatEnd(pat, text, pos) ==
  PatEndFrom(pat, text, pos, 1)

\* len(re.findall(pattern, text, re.IGNORECASE)): the number of
\* non-overlapping matches, scanning left to right
RECURSIVE FindAllFrom(_, _, _)
FindAllFrom(pat, text, pos) ==
  LET starts == {p \in pos..Len(text) : PatEnd(pat, text, p) # 0} IN
  IF starts = {} THEN 0
  ELSE 1 + FindAllFrom(pat, text, PatEnd(pat, text, SetMin(starts)))

FindAllCount(pat, text) ==
  FindAllFrom(pat, text, 1)

\* re.search(pattern, text, re.IGNORECASE) is not None
Search(pat, text) ==
  \E pos \in 1..Len(text) : PatEnd(pat, text, pos) # 0

(***************************************************************************)
(* Classifier and impact assessor (SystemLogScanner)                       *)
(***************************************************************************)
\* as CombinedText, the log text being left out
CombinedText_DescOnly(error_desc, log_content) ==
  Lower(error_desc)

\* f"{error_desc} {log_content}".lower()
CombinedText(error_desc, log_content) ==
  Lower(error_desc \o <<" ">> \o log_content)

\* score of one category: the occurrence counts of its patterns, summed
RECURSIVE ScoreFrom(_, _, _)
ScoreFrom(patterns, text, j) ==
  IF j > Len(patterns) THEN 0
  ELSE FindAllCount(patterns[j], text) + ScoreFrom(patterns, text, j + 1)

\* the dictionary `scores`, as a sequence in the table's order
ScoresOf(text) ==
  [i \in 1..Len(error_patterns) |-> ScoreFrom(error_patterns[i].patterns, text, 1)]

\* max(scores.items(), key=lambda x: x[1]): the index of the first entry,
\* in iteration order, that holds the greatest score
\* as MaxIndexFrom, a later entry with an equal score taking over
RECURSIVE MaxIndexFrom_LastWins(_, _, _)
MaxIndexFrom_LastWins(sc, i, best) ==
  IF i > Len(sc) THEN best
  ELSE MaxIndexFrom_LastWins(sc, i + 1, IF sc[i] >= sc[best] THEN i ELSE best)

RECURSIVE MaxIndexFrom(_, _, _)
MaxIndexFrom(sc, i, best) ==
  IF i > Len(sc) THEN best
  ELSE MaxIndexFrom(sc, i + 1, IF sc[i] > sc[best] THEN i ELSE best)

MaxItem(sc) ==
  MaxIndexFrom(sc, 2, 1)

\* as ClassifyResult, `application` being returned when no pattern matched
ClassifyResult_ZeroIsApplication(sc) ==
  IF Len(sc) > 0 /\ sc[MaxItem(sc)] > 0
    THEN error_patterns[MaxItem(sc)].error_type
  ELSE "application"

\* the value classify_error_type returns for a computed `scores`
ClassifyResult(sc) ==
  IF Len(sc) > 0 THEN error_patterns[MaxItem(sc)].error_type
  ELSE "application"

classify_error_type(error_desc, log_content) ==
  ClassifyResult(ScoresOf(CombinedText(error_desc, log_content)))

\* some pattern of the level's list is found in the text
LevelMatches(level, text) ==
  \E i \in 1..Len(impact_indicators) :
    /\ impact_indicators[i].level = level
    /\ \E j \in 1..Len(impact_indicators[i].patterns) :
         Search(impact_indicators[i].patterns[j], text)

\* as SeverityOrder, least severe first
SeverityOrder_Reversed ==
  <<"low", "medium", "high", "critical">>

\* the list the loop of assess_impact iterates (line 239)
SeverityOrder ==
  <<"critical", "high", "medium", "low">>

\* as AssessFrom, the last tier of the list never being tested
RECURSIVE AssessFrom_SkipsLast(_, _)
AssessFrom_SkipsLast(text, k) ==
  IF k > Len(SeverityOrder) - 1 THEN "info"
  ELSE IF LevelMatches(SeverityOrder[k], text) THEN SeverityOrder[k]
  ELSE AssessFrom_SkipsLast(text, k + 1)

RECURSIVE AssessFrom(_, _)
AssessFrom(text, k) ==
  IF k > Len(SeverityOrder) THEN "info"
  ELSE IF LevelMatches(SeverityOrder[k], text) THEN SeverityOrder[k]
  ELSE AssessFrom(text, k + 1)

assess_impact(error_desc, log_content) ==
  AssessFrom(CombinedText(error_desc, log_content), 1)

(***************************************************************************)
(* Bounds and input sets                                                   *)
(***************************************************************************)
\* the greatest number of words in an error description given to the
\* classifier and the impact assessor on their own
MaxDescWords == 2

\* the greatest number of words in the error description of a whole run
MaxRunWords == 1

W_hello ==
  <<"h","e","l","l","o">>

W_panic ==
  <<"p","a","n","i","c">>

W_failed_to_start ==
  <<"F","a","i","l","e","d"," ","t","o"," ","s","t","a","r","t">>

W_timeout ==
  <<"t","i","m","e","o","u","t">>

W_notice ==
  <<"n","o","t","i","c","e">>

DescWords ==
  {W_hello, W_panic, W_failed_to_start, W_timeout, W_notice}

\* " ".join(words)
RECURSIVE JoinWords(_)
JoinWords(ws) ==
  IF Len(ws) = 1 THEN ws[1]
  ELSE ws[1] \o <<" ">> \o JoinWords(Tail(ws))

\* the descriptions of at most n words
DescsUpTo(n) ==
  {JoinWords(ws) : ws \in UNION {[1..k -> DescWords] : k \in 1..n}}

Descs ==
  DescsUpTo(MaxDescWords)

\* the words of the error description of a whole run
RunWords ==
  {W_hello, W_panic, W_failed_to_start}

RunDescs ==
  {JoinWords(ws) : ws \in UNION {[1..k -> RunWords] : k \in 1..MaxRunWords}}

T_all_good ==
  <<"a","l","l"," ","s","y","s","t","e","m","s"," ","n","o","m","i","n","a","l">>

T_podman ==
  <<"p","o","d","m","a","n"," ","e","r","r","o","r",":"," ","c","o","n","t","a","i","n","e","r"," ","c","r","a","s","h","e","d">>

T_unit ==
  <<"U","n","i","t"," ","s","s","h"," ","f","a","i","l","e","d","\n","w","a","r","n","i","n","g",":"," ","r","e","t","r","y">>

T_journal ==
  <<"k","e","r","n","e","l",":"," ","u","s","b"," ","f","a","u","l","t">>

P_messages ==
  <<"/","v","a","r","/","l","o","g","/","m","e","s","s","a","g","e","s">>

P_boot_log ==
  <<"/","v","a","r","/","l","o","g","/","b","o","o","t",".","l","o","g">>

P_report_pdf ==
  <<"/","t","m","p","/","r","e","p","o","r","t",".","p","d","f">>

P_missing ==
  <<"/","t","m","p","/","m","i","s","s","i","n","g",".","l","o","g">>

\* logfile_path = None
None == <<>>

\* A file of the file system: its text, what Docling exports for it, and
\* how the reads of it end.
\*   too_large      os.path.getsize(file_path) > max_file_size
\*   docling_format the suffix is one DocumentConverter supports
\*   docling_ok     converter.convert(file_path) succeeds
\*   readable       os.access(R_OK) holds and open(file_path) succeeds
File(content, too_large, docling_format, docling_ok, readable) ==
  [content |-> content, too_large |-> too_large,
   docling_format |-> docling_format, docling_ok |-> docling_ok,
   readable |-> readable]

\* the environments a run may find: the files that exist, the order in
\* which a directory listing (glob) enumerates them, and whether the import
\* of docling succeeded.  P_missing is in none of them.
Worlds ==
  { [files |-> (P_messages   :> File(T_unit, FALSE, FALSE, FALSE, TRUE)) @@
               (P_boot_log   :> File(T_all_good, FALSE, FALSE, FALSE, TRUE)) @@
               (P_report_pdf :> File(T_podman, FALSE, TRUE, TRUE, TRUE)),
     listing |-> <<P_boot_log, P_messages, P_report_pdf>>,
     docling |-> TRUE],
    [files |-> (P_messages   :> File(T_all_good, FALSE, FALSE, FALSE, FALSE)) @@
               (P_boot_log   :> File(T_podman, FALSE, FALSE, FALSE, TRUE)) @@
               (P_report_pdf :> File(T_unit, FALSE, TRUE, FALSE, TRUE)),
     listing |-> <<P_report_pdf, P_messages, P_boot_log>>,
     docling |-> TRUE],
    [files |-> (P_boot_log   :> File(T_unit, TRUE, FALSE, FALSE, TRUE)) @@
               (P_report_pdf :> File(T_podman, FALSE, TRUE, TRUE, TRUE)),
     listing |-> <<P_report_pdf, P_boot_log>>,
     docling |-> FALSE] }

\* the outcomes of the journalctl subprocess (scan_system_logs)
JournalOutcomes ==
  { [rc |-> "timeout", stdout |-> <<>>],
    [rc |-> "nonzero", stdout |-> <<>>],
    [rc |-> "zero", stdout |-> <<>>],
    [rc |-> "zero", stdout |-> T_journal] }

(***************************************************************************)
(* DoclingLogParser (src/src/docling_utils.py)                             *)
(***************************************************************************)
\* lit in text  (substring test)
Contains(text, lit) ==
  \E p \in 1..Len(text) : LitAt(lit, text, p)

\* _detect_log_type: the first keyword group found in content.lower()
_detect_log_type(content) ==
  LET t == Lower(content) IN
  IF Contains(t, <<"k","e","r","n","e","l",":">>) \/ Contains(t, <<"d","m","e","s","g">>)
    THEN "kernel_log"
  ELSE IF Contains(t, <<"s","e","l","i","n","u","x">>) \/ Contains(t, <<"a","v","c",":">>)
    THEN "selinux_log"
  ELSE IF Contains(t, <<"s","y","s","t","e","m","d">>)
            \/ Contains(t, <<"j","o","u","r","n","a","l","c","t","l">>)
    THEN "systemd_log"
  ELSE IF Contains(t, <<"j","a","v","a">>)
            \/ Contains(t, <<"e","x","c","e","p","t","i","o","n">>)
    THEN "application_log"
  ELSE IF Contains(t, <<"a","u","d","i","t">>) THEN "audit_log"
  ELSE IF Contains(t, <<"a","u","t","h">>) THEN "auth_log"
  ELSE "general_log"

\* lines per chunk in _parse_basic_text
chunk_size == 1000

\* chunks kept by _parse_basic_text
max_chunks == 20

\* the positions of the newlines of content[lo..hi], in increasing order
RECURSIVE NewlinesIn(_, _, _)
NewlinesIn(content, lo, hi) ==
  IF lo > hi THEN <<>>
  ELSE IF lo = hi THEN (IF content[lo] = "\n" THEN <<lo>> ELSE <<>>)
  ELSE LET mid == (lo + hi) \div 2
       IN  NewlinesIn(content, lo, mid) \o NewlinesIn(content, mid + 1, hi)

\* content.split('\n'): line k as the pair <<first, last>> of its positions
LineSpans(content) ==
  LET nl == NewlinesIn(content, 1, Len(content))
  IN  [k \in 1..(Len(nl) + 1) |->
         << IF k = 1 THEN 1 ELSE nl[k - 1] + 1,
            IF k = Len(nl) + 1 THEN Len(content) ELSE nl[k] - 1 >>]

\* the chunks of _parse_basic_text: '\n'.join(lines[i:i+chunk_size]) for
\* i = 0, chunk_size, ..., cut to the first max_chunks
BasicChunks(content) ==
  LET spans == LineSpans(content)
      n     == Len(spans)
      cnt   == (n + chunk_size - 1) \div chunk_size
      kept  == IF cnt > max_chunks THEN max_chunks ELSE cnt
  IN  [c \in 1..kept |->
         LET first == (c - 1) * chunk_size + 1
             last  == IF c * chunk_size < n THEN c * chunk_size ELSE n
         IN  SubSeq(content, spans[first][1], spans[last][2])]

\* the dictionary parse_log_file / parse_log_stream starts from; error = ""
\* stands for a dictionary without the key 'error'
ParseResult(content, document_type, chunks, parsing_method, error) ==
  [content |-> content, document_type |-> document_type, chunks |-> chunks,
   parsing_method |-> parsing_method, error |-> error]

HasError(parsed) ==
  parsed.error # ""

\* DoclingLogParser.parse_log_file
parse_log_file(file_path, filesystem, docling_available) ==
  IF file_path \notin DOMAIN filesystem
    THEN ParseResult(<<>>, "", <<>>, "fallback", "File not found")
  ELSE LET f == filesystem[file_path] IN
  IF f.too_large
    THEN ParseResult(<<>>, "", <<>>, "fallback", "File too large")
  ELSE IF docling_available /\ f.docling_format /\ f.docling_ok
    THEN ParseResult(f.content, _detect_log_type(f.content), <<>>, "docling", "")
  ELSE IF f.readable
    THEN ParseResult(f.content, _detect_log_type(f.content),
                     BasicChunks(f.content), "basic", "")
  ELSE ParseResult(<<>>, "", <<>>, "fallback", "Failed to parse file")

\* DoclingLogParser.parse_log_stream for the stream name "journalctl_errors",
\* which has no suffix Docling supports
parse_log_stream(stream_data) ==
  ParseResult(stream_data, _detect_log_type(stream_data), <<>>, "basic", "")

\* the free-text detectors of extract_error_patterns
detector_patterns ==
  <<
    \* r'error|failed|exception|panic|fault|crash'
    [category |-> "error", pattern |->
      << << <<"e","r","r","o","r">> >>,
         << <<"f","a","i","l","e","d">> >>,
         << <<"e","x","c","e","p","t","i","o","n">> >>,
         << <<"p","a","n","i","c">> >>,
         << <<"f","a","u","l","t">> >>,
         << <<"c","r","a","s","h">> >> >>],
    \* r'warning|warn'
    [category |-> "warning", pattern |->
      << << <<"w","a","r","n","i","n","g">> >>,
         << <<"w","a","r","n">> >> >>],
    \* r'critical|fatal|severe'
    [category |-> "critical", pattern |->
      << << <<"c","r","i","t","i","c","a","l">> >>,
         << <<"f","a","t","a","l">> >>,
         << <<"s","e","v","e","r","e">> >> >>],
    \* r'denied|refused|unauthorized'
    [category |-> "security", pattern |->
      << << <<"d","e","n","i","e","d">> >>,
         << <<"r","e","f","u","s","e","d">> >>,
         << <<"u","n","a","u","t","h","o","r","i","z","e","d">> >> >>],
    \* r'timeout|unreachable|connection.*refused'
    [category |-> "network", pattern |->
      << << <<"t","i","m","e","o","u","t">> >>,
         << <<"u","n","r","e","a","c","h","a","b","l","e">> >>,
         << <<"c","o","n","n","e","c","t","i","o","n">>, <<"r","e","f","u","s","e","d">> >> >>],
    \* r'out of memory|memory.*error'
    [category |-> "memory", pattern |->
      << << <<"o","u","t"," ","o","f"," ","m","e","m","o","r","y">> >>,
         << <<"m","e","m","o","r","y">>, <<"e","r","r","o","r">> >> >>],
    \* r'disk.*full|no space'
    [category |-> "storage", pattern |->
      << << <<"d","i","s","k">>, <<"f","u","l","l">> >>,
         << <<"n","o"," ","s","p","a","c","e">> >> >>]
  >>

\* entries extract_error_patterns returns at most
max_errors == 100

\* list(re.finditer(pattern, text, re.IGNORECASE)) as <<start, end>> pairs,
\* end being the position just after the match
RECURSIVE FindIterFrom(_, _, _)
FindIterFrom(pat, text, pos) ==
  LET starts == {p \in pos..Len(text) : PatEnd(pat, text, p) # 0} IN
  IF starts = {} THEN <<>>
  ELSE LET s == SetMin(starts)
           e == PatEnd(pat, text, s)
       IN  <<<<s, e>>>> \o FindIterFrom(pat, text, e)

\* the entries found in the full content, detector by detector
RECURSIVE ContentErrors(_, _)
ContentErrors(content, d) ==
  IF d > Len(detector_patterns) THEN <<>>
  ELSE LET ms == FindIterFrom(detector_patterns[d].pattern, content, 1)
       IN  [m \in 1..Len(ms) |->
              [category |-> detector_patterns[d].category,
               match    |-> SubSeq(content, ms[m][1], ms[m][2] - 1),
               position |-> ms[m][1] - 1,
               chunk_index |-> -1]]
           \o ContentErrors(content, d + 1)

\* the entries of one chunk: one per detector found in it
RECURSIVE OneChunkErrors(_, _, _)
OneChunkErrors(chunks, c, d) ==
  IF d > Len(detector_patterns) THEN <<>>
  ELSE (IF Search(detector_patterns[d].pattern, chunks[c])
          THEN << [category |-> detector_patterns[d].category,
                   match |-> <<>>, position |-> -1, chunk_index |-> c - 1] >>
          ELSE <<>>)
       \o OneChunkErrors(chunks, c, d + 1)

RECURSIVE ChunkErrors(_, _)
ChunkErrors(chunks, c) ==
  IF c > Len(chunks) THEN <<>>
  ELSE OneChunkErrors(chunks, c, 1) \o ChunkErrors(chunks, c + 1)

\* s[:n]
Prefix(s, n) ==
  IF Len(s) <= n THEN s ELSE SubSeq(s, 1, n)

\* DoclingLogParser.extract_error_patterns
extract_error_patterns(parsed) ==
  Prefix(ContentErrors(parsed.content, 1) \o ChunkErrors(parsed.chunks, 1),
         max_errors)

(***************************************************************************)
(* SystemLogScanner.scan_system_logs                                       *)
(***************************************************************************)
\* self.log_paths, in the insertion order of the dictionary
log_paths ==
  <<
    [log_type |-> "kernel", paths |-> <<
      <<"/","v","a","r","/","l","o","g","/","k","e","r","n",".","l","o","g">>,
      <<"/","v","a","r","/","l","o","g","/","d","m","e","s","g">>,
      <<"/","v","a","r","/","l","o","g","/","m","e","s","s","a","g","e","s">> >>],
    [log_type |-> "system", paths |-> <<
      <<"/","v","a","r","/","l","o","g","/","s","y","s","l","o","g">>,
      <<"/","v","a","r","/","l","o","g","/","m","e","s","s","a","g","e","s">>,
      <<"/","v","a","r","/","l","o","g","/","s","y","s","t","e","m",".","l","o","g">> >>],
    [log_type |-> "selinux", paths |-> <<
      <<"/","v","a","r","/","l","o","g","/","a","u","d","i","t","/","a","u","d","i","t",".","l","o","g">>,
      <<"/","v","a","r","/","l","o","g","/","a","u","d","i","t",".","l","o","g">> >>],
    [log_type |-> "boot", paths |-> <<
      <<"/","v","a","r","/","l","o","g","/","b","o","o","t",".","l","o","g">>,
      <<"/","v","a","r","/","l","o","g","/","b","o","o","t">>,
      <<"/","v","a","r","/","l","o","g","/","d","m","e","s","g">> >>],
    [log_type |-> "journal", paths |-> <<
      <<"j","o","u","r","n","a","l","c","t","l">> >>],
    [log_type |-> "application", paths |-> <<
      <<"/","v","a","r","/","l","o","g","/","*",".","l","o","g">>,
      <<"/","o","p","t","/","*","/","l","o","g","s","/","*",".","l","o","g">>,
      <<"~","/",".","l","o","c","a","l","/","s","h","a","r","e","/","l","o","g","s","/","*",".","l","o","g">> >>]
  >>

\* source.upper() for the keys of errors_found
SourceUpper ==
  [journal |-> <<"J","O","U","R","N","A","L">>,
   kernel |-> <<"K","E","R","N","E","L">>,
   system |-> <<"S","Y","S","T","E","M">>,
   selinux |-> <<"S","E","L","I","N","U","X">>,
   boot |-> <<"B","O","O","T">>,
   application |-> <<"A","P","P","L","I","C","A","T","I","O","N">>]

error_keywords ==
  << <<"e","r","r","o","r">>,
     <<"f","a","i","l","e","d">>,
     <<"e","x","c","e","p","t","i","o","n">>,
     <<"p","a","n","i","c">>,
     <<"f","a","u","l","t">>,
     <<"d","e","n","i","e","d">>,
     <<"t","i","m","e","o","u","t">> >>

\* SystemLogScanner._contains_recent_errors: keyword presence only
_contains_recent_errors(content) ==
  \E k \in 1..Len(error_keywords) : Contains(Lower(content), error_keywords[k])

\* glob.glob: "*" stands for any run of characters other than "/"
RECURSIVE GlobAt(_, _, _, _)
GlobAt(pattern, i, path, j) ==
  IF i > Len(pattern) THEN j > Len(path)
  ELSE IF pattern[i] = "*"
    THEN \E k \in j..(Len(path) + 1) :
           /\ \A m \in j..(k - 1) : path[m] # "/"
           /\ GlobAt(pattern, i + 1, path, k)
  ELSE /\ j <= Len(path)
       /\ path[j] = pattern[i]
       /\ GlobAt(pattern, i + 1, path, j + 1)

\* the files of the listing that the glob pattern matches, in listing order
RECURSIVE SelectMatching(_, _)
SelectMatching(listing, pattern) ==
  IF listing = <<>> THEN <<>>
  ELSE (IF GlobAt(pattern, 1, Head(listing), 1) THEN <<Head(listing)>> ELSE <<>>)
       \o SelectMatching(Tail(listing), pattern)

\* the files one entry of log_paths stands for; listing is the order in
\* which the file system enumerates its files
FilesOf(path_pattern, filesystem, listing) ==
  IF \E i \in 1..Len(path_pattern) : path_pattern[i] = "*"
    THEN SelectMatching(listing, path_pattern)
  ELSE IF path_pattern \in DOMAIN filesystem THEN <<path_pattern>>
  ELSE <<>>

\* the (log_type, file_path) pairs the two nested loops visit, in order
RECURSIVE PathCandidates(_, _, _, _)
PathCandidates(t, p, filesystem, listing) ==
  IF t > Len(log_paths) THEN <<>>
  ELSE IF log_paths[t].log_type = "journal" \/ p > Len(log_paths[t].paths)
    THEN PathCandidates(t + 1, 1, filesystem, listing)
  ELSE LET fs == FilesOf(log_paths[t].paths[p], filesystem, listing)
       IN  [k \in 1..Len(fs) |-> [log_type |-> log_paths[t].log_type,
                                   file_path |-> fs[k]]]
           \o PathCandidates(t, p + 1, filesystem, listing)

\* the index of the entry of errors_found with the key source, 0 if none
IndexOfSource(found, source) ==
  IF \E i \in 1..Len(found) : found[i].source = source
    THEN CHOOSE i \in 1..Len(found) : found[i].source = source
  ELSE 0

\* the body of the innermost loop for one readable file whose parse has
\* no error and which holds an error keyword
AddParsedFile(found, log_type, file_path, parsed) ==
  LET i    == IndexOfSource(found, log_type)
      base == IF i = 0
                THEN Append(found, [source |-> log_type, content |-> <<>>,
                                    error_patterns |-> <<>>,
                                    parsed_files |-> <<>>,
                                    has_parsed_files |-> TRUE])
                ELSE found
      j    == IF i = 0 THEN Len(base) ELSE i
  IN  [base EXCEPT
         ![j].content = @ \o <<"\n","-","-","-"," ">> \o file_path \o <<" ","-","-","-","\n">> \o parsed.content,
         ![j].error_patterns = @ \o extract_error_patterns(parsed),
         ![j].parsed_files = Append(@, [path |-> file_path,
                                        parsing_method |-> parsed.parsing_method])]

\* as ScanFiles, a file that cannot be read or parsed ending the scan
RECURSIVE ScanFiles_StopsAtFailure(_, _, _, _, _)
ScanFiles_StopsAtFailure(cands, c, found, filesystem, docling_available) ==
  IF c > Len(cands) THEN found
  ELSE LET file_path == cands[c].file_path
           parsed == parse_log_file(file_path, filesystem, docling_available)
       IN  IF ~filesystem[file_path].readable \/ HasError(parsed)
             THEN found
           ELSE ScanFiles_StopsAtFailure(
                  cands, c + 1,
                  IF _contains_recent_errors(parsed.content)
                    THEN AddParsedFile(found, cands[c].log_type, file_path,
                                       parsed)
                    ELSE found,
                  filesystem, docling_available)

\* lines 164-206: the loop over the files, file by file
RECURSIVE ScanFiles(_, _, _, _, _)
ScanFiles(cands, c, found, filesystem, docling_available) ==
  IF c > Len(cands) THEN found
  ELSE LET file_path == cands[c].file_path
           parsed == parse_log_file(file_path, filesystem, docling_available)
           next ==
             IF /\ file_path \in DOMAIN filesystem
                /\ filesystem[file_path].readable
                /\ ~HasError(parsed)
                /\ _contains_recent_errors(parsed.content)
               THEN AddParsedFile(found, cands[c].log_type, file_path, parsed)
               ELSE found
       IN  ScanFiles(cands, c + 1, next, filesystem, docling_available)

\* the journal part: the subprocess may time out or fail (caught), and its
\* output is used only when the return code is 0 and stdout is not empty
JournalErrors(journal) ==
  IF journal.rc = "zero" /\ journal.stdout # <<>>
    THEN LET parsed == parse_log_stream(journal.stdout) IN
         << [source |-> "journal", content |-> parsed.content,
             error_patterns |-> extract_error_patterns(parsed),
             parsed_files |-> <<>>, has_parsed_files |-> FALSE] >>
  ELSE <<>>

\* scan_system_logs: errors_found as a sequence in insertion order
scan_system_logs(journal, filesystem, listing, docling_available) ==
  ScanFiles(PathCandidates(1, 1, filesystem, listing), 1,
            JournalErrors(journal), filesystem, docling_available)

\* lines 325-348: the log text and the pattern list of system-scan mode
RECURSIVE JoinParts(_, _)
JoinParts(found, i) ==
  IF i > Len(found) THEN <<>>
  ELSE (IF i > 1 THEN <<"\n","\n">> ELSE <<>>)
       \o <<"=","=","="," ">> \o SourceUpper[found[i].source] \o <<" ","L","O","G","S"," ","=","=","=","\n">>
       \o found[i].content
       \o JoinParts(found, i + 1)

RECURSIVE AllErrorPatterns(_, _)
AllErrorPatterns(found, i) ==
  IF i > Len(found) THEN <<>>
  ELSE found[i].error_patterns \o AllErrorPatterns(found, i + 1)

\* "No recent system errors detected in standard log locations."
NoRecentErrors ==
  <<"N","o"," ","r","e","c","e","n","t"," ","s","y","s","t","e","m"," ","e","r","r","o","r","s"," ","d","e","t","e","c","t","e","d"," ","i","n"," ","s","t","a","n","d","a","r","d"," ","l","o","g"," ","l","o","c","a","t","i","o","n","s",".">>

(***************************************************************************)
(* Prompt composer: build_enhanced_prompt (src/src/rca_utils.py)           *)
(*                                                                         *)
(* The prompt is the sequence of the pieces the f-string joins: the fixed  *)
(* text of the template (part "literal") and the interpolated values.  A   *)
(* piece whose value is the empty string is left out.                      *)
(***************************************************************************)
\* str.upper() on the category and level names
UpperName ==
  [kernel |-> "KERNEL", selinux |-> "SELINUX", java |-> "JAVA",
   systemd |-> "SYSTEMD", network |-> "NETWORK", application |-> "APPLICATION",
   boot |-> "BOOT", hardware |-> "HARDWARE", security |-> "SECURITY",
   container |-> "CONTAINER",
   critical |-> "CRITICAL", high |-> "HIGH", medium |-> "MEDIUM",
   low |-> "LOW", info |-> "INFO"]

Literal(s) ==
  [part |-> "literal", text |-> s]

Piece(name, value) ==
  [part |-> name, text |-> value]

\* type_specific_guidance.get(error_type, ...)
GuidanceFor(error_type_) ==
  CASE error_type_ = "kernel"    -> "Focus on kernel-level issues"
    [] error_type_ = "selinux"   -> "Focus on SELinux security policy issues"
    [] error_type_ = "java"      -> "Focus on JVM and Java application issues"
    [] error_type_ = "boot"      -> "Focus on system boot and initialization issues"
    [] error_type_ = "container" -> "Focus on container-related issues"
    [] OTHER -> "Focus on application-level debugging strategies."

\* impact_guidance.get(impact_level, ...)
ImpactGuidanceFor(impact_level_) ==
  CASE impact_level_ = "critical" -> "CRITICAL IMPACT - System-wide outage or data loss risk"
    [] impact_level_ = "high"     -> "HIGH IMPACT - Major service disruption"
    [] impact_level_ = "medium"   -> "MEDIUM IMPACT - Partial service degradation"
    [] impact_level_ = "low"      -> "LOW IMPACT - Minor issues"
    [] OTHER -> "Assess impact based on service criticality."

\* as SectionHeaders, Immediate Fix put before Impact Assessment
SectionHeaders_Swapped ==
  << "## Root Cause Analysis", "## Technical Evidence", "## Immediate Fix",
     "## Impact Assessment", "## Long-term Prevention", "## Advanced Diagnostics",
     "## Security Considerations", "## Lessons Learned" >>

\* the section headers of the report outline, in template order
SectionHeaders ==
  << "## Root Cause Analysis", "## Technical Evidence", "## Impact Assessment",
     "## Immediate Fix", "## Long-term Prevention", "## Advanced Diagnostics",
     "## Security Considerations", "## Lessons Learned" >>

\* docling_info (lines 147-167)
DoclingInfo(ctx) ==
  IF "docling_metadata" \in DOMAIN ctx
    THEN << Piece("docling_info",
              [engine |-> IF "docling_available" \in DOMAIN ctx
                               /\ ctx["docling_available"]
                            THEN "Docling (enhanced)" ELSE "Basic text parser",
               document_type |-> IF ctx["docling_metadata"] = ""
                                   THEN "unknown" ELSE ctx["docling_metadata"],
               detected |-> IF "error_patterns" \in DOMAIN ctx
                              THEN Len(ctx["error_patterns"]) ELSE 0,
               key_patterns |-> IF "error_patterns" \in DOMAIN ctx
                                  THEN Prefix(ctx["error_patterns"], 5)
                                  ELSE <<>>]) >>
  ELSE <<>>

\* container_info (lines 169-172)
ContainerInfo(ctx) ==
  IF "container_health" \in DOMAIN ctx
    THEN << Piece("container_info", ctx["container_health"]) >>
  ELSE <<>>

\* resource_info (lines 174-181)
ResourceInfo(ctx) ==
  IF "resource_usage" \in DOMAIN ctx \/ "cpu_info" \in DOMAIN ctx
    THEN << Piece("resource_info",
              [resource_usage |-> IF "resource_usage" \in DOMAIN ctx
                                    THEN ctx["resource_usage"] ELSE "",
               cpu_info |-> IF "cpu_info" \in DOMAIN ctx
                              THEN ctx["cpu_info"] ELSE ""]) >>
  ELSE <<>>

\* the report outline that closes the template (lines 209-235)
Outline ==
  << Literal("Provide a comprehensive diagnostic analysis with the following structure:") >>
  \o [i \in 1..Len(SectionHeaders) |-> Literal(SectionHeaders[i])]
  \o << Literal("Be specific with command examples, file paths, and configuration snippets where applicable.") >>

build_enhanced_prompt(error_desc_, log_lines, error_type_, system_context_, impact_level_, ctx, triage_mode_) ==
  << Literal("You are an expert system administrator and diagnostic specialist"),
     Literal("ERROR CLASSIFICATION: "), Piece("error_type", UpperName[error_type_]),
     Literal("IMPACT LEVEL: "), Piece("impact_level", UpperName[impact_level_]),
     Literal("The user is reporting the following error:"),
     Piece("error_desc", error_desc_),
     Literal("SYSTEM CONTEXT:"), Piece("system_context", system_context_),
     Literal("LOG ANALYSIS DATA:"), Piece("log_lines", log_lines) >>
  \o DoclingInfo(ctx) \o ContainerInfo(ctx) \o ResourceInfo(ctx)
  \o << Literal("SPECIALIZED GUIDANCE:"), Piece("guidance", GuidanceFor(error_type_)),
        Literal("IMPACT ASSESSMENT:"), Piece("impact", ImpactGuidanceFor(impact_level_)) >>
  \o (IF triage_mode_
        THEN << Piece("triage_guidance", "TRIAGE MODE - Live outage in progress") >>
        ELSE <<>>)
  \o Outline

(***************************************************************************)
(* The orchestrator: perform_enhanced_rca (src/src/rca_core.py)            *)
(***************************************************************************)
VARIABLES
  error_desc,          \* argument: the error description
  logfile_path,        \* argument: None or a path
  scan_system,         \* argument
  triage_mode,         \* argument
  filesystem,          \* environment: the files that exist
  dir_listing,         \* environment: the order glob lists the files in
  DOCLING_AVAILABLE,   \* environment: the docling import succeeded
  pc,                  \* the position of the coroutine
  system_context,
  log_content,
  parsed_log_metadata,
  error_patterns_found, \* the local error_patterns
  input_mode,          \* which branch of lines 297-355 ran
  scores,              \* the local of classify_error_type
  error_type,
  impact_level,
  additional_context,
  prompt,
  calls,               \* the operations and collaborators invoked, in order
  spinner_running,     \* spinner.running
  spinner_thread_alive, \* spinner.thread has not ended
  model_spinner_running,
  model_spinner_thread_alive,
  response,
  analysis,
  report_saved,        \* the report file exists in temp_dir
  temp_dir,            \* resource_monitor.temp_dir: "absent", "exists", "removed"
  raised,              \* the exception that reaches the caller, or NoException
  _note_shown,         \* DoclingLogParser._note_shown, a class attribute
  notes_printed,       \* how many times the note has been printed
  parsers,             \* the DoclingLogParser objects constructed so far
  running,             \* one ASCIISpinner: self.running
  threads_alive,       \* one ASCIISpinner: its animation threads alive
  spinner_calls,       \* one ASCIISpinner: the calls of start and stop made
  joining,             \* one ASCIISpinner: stop() is waiting in thread.join
  argv,                \* sys.argv[1:]
  main_pc,             \* the position of main
  cli_args,            \* the dictionary parse_enhanced_args returns
  main_exception,      \* the exception main has caught
  exit_code            \* the exit status of the process, -1 while it runs

vars ==
  << error_desc, logfile_path, scan_system, triage_mode, filesystem,
     dir_listing, DOCLING_AVAILABLE, pc, system_context, log_content, parsed_log_metadata,
     error_patterns_found, input_mode, scores, error_type, impact_level,
     additional_context, prompt, calls, spinner_running,
     spinner_thread_alive, model_spinner_running,
     model_spinner_thread_alive, response, analysis, report_saved,
     temp_dir, raised, _note_shown, notes_printed, parsers, running,
     threads_alive, spinner_calls, joining, argv, main_pc, cli_args,
     main_exception, exit_code >>

\* the state of DoclingLogParser that outlives one parser
parser_vars ==
  << _note_shown, notes_printed, parsers >>

\* the state of an ASCIISpinner that is started and stopped at will
one_spinner_vars ==
  << running, threads_alive, spinner_calls, joining >>

\* the state of main (src/src/rca_agent.py)
main_vars ==
  << argv, main_pc, cli_args, main_exception, exit_code >>

args ==
  << error_desc, logfile_path, scan_system, triage_mode, filesystem,
     dir_listing, DOCLING_AVAILABLE >>

NoException ==
  [type |-> "", message |-> "", cause |-> ""]

EmptyContext ==
  [k \in {} |-> ""]

LogfilePaths ==
  {None, P_missing, P_messages, P_boot_log, P_report_pdf}

\* a process that has constructed no DoclingLogParser yet
ProcessFresh ==
  /\ _note_shown = FALSE
  /\ notes_printed = 0
  /\ parsers = <<>>

\* no ASCIISpinner other than those of the run
NoSpinner ==
  /\ running = FALSE
  /\ threads_alive = 0
  /\ spinner_calls = <<>>
  /\ joining = FALSE

NoArgs ==
  [error |-> <<>>, logfile |-> <<>>, scan_system |-> FALSE, hours_back |-> 24,
   mode |-> "basic", triage_mode |-> FALSE, framework |-> "beeai"]

\* perform_enhanced_rca called directly, not through main
NoMain ==
  /\ argv = <<>>
  /\ main_pc = "none"
  /\ cli_args = NoArgs
  /\ main_exception = NoException
  /\ exit_code = -1

\* the locals of a run before its first statement
InitLocals ==
  /\ system_context = ""
  /\ parsed_log_metadata = ""
  /\ error_patterns_found = <<>>
  /\ input_mode = ""
  /\ scores = <<>>
  /\ error_type = ""
  /\ impact_level = ""
  /\ additional_context = EmptyContext
  /\ prompt = <<>>
  /\ calls = <<>>
  /\ spinner_running = FALSE
  /\ spinner_thread_alive = FALSE
  /\ model_spinner_running = FALSE
  /\ model_spinner_thread_alive = FALSE
  /\ response = ""
  /\ analysis = ""
  /\ report_saved = FALSE
  /\ temp_dir = "absent"
  /\ raised = NoException

\* a call of perform_enhanced_rca
Init ==
  /\ error_desc \in RunDescs
  /\ logfile_path \in LogfilePaths
  /\ scan_system \in BOOLEAN
  /\ triage_mode \in BOOLEAN
  /\ \E w \in Worlds :
       /\ filesystem = w.files
       /\ dir_listing = w.listing
       /\ DOCLING_AVAILABLE = w.docling
  /\ pc = "start"
  /\ log_content = <<>>
  /\ InitLocals
  /\ ProcessFresh
  /\ NoSpinner
  /\ NoMain

(***************************************************************************)
(* ASCIISpinner (src/src/spinner_utils.py), once for `spinner` and once    *)
(* for `model_spinner`                                                     *)
(***************************************************************************)
\* start (lines 57-62): the flag is set and the animation thread started
SpinnerStart ==
  /\ spinner_running' = TRUE
  /\ spinner_thread_alive' = TRUE

\* stop (lines 64-72): nothing when the spinner is not running; otherwise
\* the flag is cleared and thread.join(timeout=1.0) returns either because
\* the thread has ended or because the second has passed
SpinnerStop ==
  /\ spinner_running' = FALSE
  /\ IF spinner_running
       THEN spinner_thread_alive' \in {FALSE, spinner_thread_alive}
       ELSE UNCHANGED spinner_thread_alive

\* __enter__ (lines 74-77)
ModelSpinnerStart ==
  /\ model_spinner_running' = TRUE
  /\ model_spinner_thread_alive' = TRUE

\* __exit__ (lines 79-81)
ModelSpinnerStop ==
  /\ model_spinner_running' = FALSE
  /\ IF model_spinner_running
       THEN model_spinner_thread_alive' \in {FALSE, model_spinner_thread_alive}
       ELSE UNCHANGED model_spinner_thread_alive

\* as RaiseInTry, the exception being wrapped a second time on its way out
RaiseInTry_Nested(type, message) ==
  /\ raised' = [type |-> "Exception",
                message |-> "Failed to get response from model",
                cause |-> [type |-> "Exception",
                           message |-> "Failed to get response from model",
                           cause |-> [type |-> type, message |-> message]]]
  /\ SpinnerStop
  /\ pc' = "raised"

\* lines 444-448: an exception raised inside the try block is caught by
\* `except Exception`, replaced by Exception("Failed to get response from
\* model: ..."), and the finally clause stops the spinner
RaiseInTry(type, message) ==
  /\ raised' = [type |-> "Exception",
                message |-> "Failed to get response from model",
                cause |-> [type |-> type, message |-> message]]
  /\ SpinnerStop
  /\ pc' = "raised"

\* lines 276-293: system context, components (ResourceMonitor() makes its
\* temporary directory), progress bar, spinner.start()
Start ==
  /\ pc = "start"
  /\ system_context' = "os_info, selinux_status, memory_info, disk_space, system_load"
  /\ calls' = Append(calls, "get_system_context")
  /\ temp_dir' = "exists"
  /\ SpinnerStart
  /\ pc' = "gather"
  /\ UNCHANGED << main_vars, parser_vars, one_spinner_vars, args, log_content,
                  parsed_log_metadata, error_patterns_found, input_mode,
                  scores, error_type, impact_level, additional_context,
                  prompt, model_spinner_running, model_spinner_thread_alive,
                  response, analysis, report_saved, raised >>

\* as FileExists, the scan flag being looked at before the path
FileExists_UnlessScan ==
  logfile_path # None /\ logfile_path \in DOMAIN filesystem /\ ~scan_system

\* line 297: logfile_path and os.path.exists(logfile_path)
FileExists ==
  logfile_path # None /\ logfile_path \in DOMAIN filesystem

\* lines 297-314: explicit-file mode
ParseLogFile ==
  /\ pc = "gather"
  /\ FileExists
  /\ LET parsed_log == parse_log_file(logfile_path, filesystem, DOCLING_AVAILABLE) IN
     /\ calls' = Append(calls, "parse_log_file")
     /\ input_mode' = "file"
     /\ IF HasError(parsed_log)
          THEN /\ RaiseInTry("FileNotFoundError", "Failed to parse log file")
               /\ UNCHANGED << log_content, parsed_log_metadata,
                               error_patterns_found >>
          ELSE /\ log_content' = parsed_log.content
               /\ parsed_log_metadata' = parsed_log.document_type
               /\ error_patterns_found' = extract_error_patterns(parsed_log)
               /\ pc' = "classify"
               /\ UNCHANGED << raised, spinner_running, spinner_thread_alive
                               >>
  /\ UNCHANGED << main_vars, parser_vars, one_spinner_vars, args,
                  system_context, scores, error_type, impact_level,
                  additional_context, prompt, model_spinner_running,
                  model_spinner_thread_alive, response, analysis,
                  report_saved, temp_dir >>

\* lines 315-349: system-scan mode
ScanSystem ==
  /\ pc = "gather"
  /\ ~FileExists
  /\ scan_system
  /\ \E journal \in JournalOutcomes :
       LET system_errors == scan_system_logs(journal, filesystem, dir_listing,
                                            DOCLING_AVAILABLE)
       IN  IF system_errors # <<>>
             THEN /\ log_content' = JoinParts(system_errors, 1)
                  /\ error_patterns_found' = AllErrorPatterns(system_errors, 1)
             ELSE /\ log_content' = NoRecentErrors
                  /\ error_patterns_found' = <<>>
  /\ calls' = Append(calls, "scan_system_logs")
  /\ input_mode' = "scan"
  /\ pc' = "classify"
  /\ UNCHANGED << main_vars, parser_vars, one_spinner_vars, args,
                  system_context, parsed_log_metadata, scores, error_type,
                  impact_level, additional_context, prompt, spinner_running,
                  spinner_thread_alive, model_spinner_running,
                  model_spinner_thread_alive, response, analysis,
                  report_saved, temp_dir, raised >>

\* lines 350-351: an explicit path that does not exist, without --scan-system
LogFileMissing ==
  /\ pc = "gather"
  /\ ~FileExists
  /\ ~scan_system
  /\ logfile_path # None
  /\ input_mode' = "missing"
  /\ RaiseInTry("FileNotFoundError", "Log file not found")
  /\ UNCHANGED << main_vars, parser_vars, one_spinner_vars, args,
                  system_context, log_content, parsed_log_metadata,
                  error_patterns_found, scores, error_type, impact_level,
                  additional_context, prompt, calls, model_spinner_running,
                  model_spinner_thread_alive, response, analysis,
                  report_saved, temp_dir >>

\* lines 352-355: quick mode
QuickMode ==
  /\ pc = "gather"
  /\ ~FileExists
  /\ ~scan_system
  /\ logfile_path = None
  /\ log_content' = QuickSentinel
  /\ input_mode' = "quick"
  /\ pc' = "classify"
  /\ UNCHANGED << main_vars, parser_vars, one_spinner_vars, args,
                  system_context, parsed_log_metadata, error_patterns_found,
                  scores, error_type, impact_level, additional_context,
                  prompt, calls, spinner_running, spinner_thread_alive,
                  model_spinner_running, model_spinner_thread_alive, response,
                  analysis, report_saved, temp_dir, raised >>

\* line 358: scanner.classify_error_type(error_desc, log_content)
Classify ==
  /\ pc = "classify"
  /\ scores' = ScoresOf(CombinedText(error_desc, log_content))
  /\ error_type' = ClassifyResult(scores')
  /\ calls' = Append(calls, "classify_error_type")
  /\ pc' = "assess"
  /\ UNCHANGED << main_vars, parser_vars, one_spinner_vars, args,
                  system_context, log_content, parsed_log_metadata,
                  error_patterns_found, input_mode, impact_level,
                  additional_context, prompt, spinner_running,
                  spinner_thread_alive, model_spinner_running,
                  model_spinner_thread_alive, response, analysis,
                  report_saved, temp_dir, raised >>

\* line 363: scanner.assess_impact(error_desc, log_content)
Assess ==
  /\ pc = "assess"
  /\ impact_level' = assess_impact(error_desc, log_content)
  /\ calls' = Append(calls, "assess_impact")
  /\ pc' = "context"
  /\ UNCHANGED << main_vars, parser_vars, one_spinner_vars, args,
                  system_context, log_content, parsed_log_metadata,
                  error_patterns_found, input_mode, scores, error_type,
                  additional_context, prompt, spinner_running,
                  spinner_thread_alive, model_spinner_running,
                  model_spinner_thread_alive, response, analysis,
                  report_saved, temp_dir, raised >>

\* what a best-effort collaborator hands back: its data, or a dictionary
\* with an "error" entry
CollaboratorResults ==
  {"data", "error"}

\* error_patterns[:20]
max_context_patterns == 20

\* as WantContainerHealth, kernel errors fetching container health too
WantContainerHealth_AlsoKernel(error_type_) ==
  error_type_ \in {"container", "kernel"}

\* line 374: the condition under which container health is fetched
WantContainerHealth(error_type_) ==
  error_type_ = "container"

\* as WantResources, the triage flag being ignored
WantResources_NoTriage(impact_level_, triage_mode_) ==
  impact_level_ \in {"critical", "high"}

\* line 377: the condition under which the resource snapshots are fetched
WantResources(impact_level_, triage_mode_) ==
  impact_level_ \in {"critical", "high"} \/ triage_mode_

\* what get_container_health ends with: its data, a dictionary with an
\* "error" entry (the failures get_container_stats, get_container_info and
\* get_container_logs catch: SubprocessError, JSONDecodeError), or an
\* exception they do not catch (UnicodeDecodeError of a text-mode
\* subprocess.run over container logs, OSError of a runtime that went away)
HealthOutcomes ==
  CollaboratorResults \cup {"raises"}

\* lines 368-379: the additional context
GatherContext ==
  /\ pc = "context"
  /\ \E health \in HealthOutcomes, top \in CollaboratorResults,
        cpu \in CollaboratorResults :
       LET base == ("docling_metadata" :> parsed_log_metadata) @@
                   ("error_patterns" :>
                      Prefix(error_patterns_found, max_context_patterns)) @@
                   ("docling_available" :> DOCLING_AVAILABLE)
           want_health == WantContainerHealth(error_type)
           want_resources == WantResources(impact_level, triage_mode)
       IN  IF want_health /\ health = "raises"
             THEN /\ additional_context' = base
                  /\ calls' = Append(calls, "get_container_health")
                  /\ RaiseInTry("UnicodeDecodeError",
                                "codec can't decode byte")
             ELSE /\ additional_context' =
                       base
                       @@ (IF want_health THEN "container_health" :> health
                                          ELSE EmptyContext)
                       @@ (IF want_resources
                             THEN ("resource_usage" :> top) @@
                                  ("cpu_info" :> cpu)
                             ELSE EmptyContext)
                  /\ calls' = calls
                       \o (IF want_health THEN <<"get_container_health">>
                                          ELSE <<>>)
                       \o (IF want_resources
                             THEN <<"get_top_info", "get_cpu_info">>
                             ELSE <<>>)
                  /\ pc' = "prompt"
                  /\ UNCHANGED << raised, spinner_running,
                                  spinner_thread_alive >>
  /\ UNCHANGED << main_vars, parser_vars, one_spinner_vars, args,
                  system_context, log_content, parsed_log_metadata,
                  error_patterns_found, input_mode, scores, error_type,
                  impact_level, prompt, model_spinner_running,
                  model_spinner_thread_alive, response, analysis,
                  report_saved, temp_dir >>

\* lines 382-384
BuildPrompt ==
  /\ pc = "prompt"
  /\ prompt' = build_enhanced_prompt(error_desc, log_content, error_type,
                                     system_context, impact_level,
                                     additional_context, triage_mode)
  /\ calls' = Append(calls, "build_enhanced_prompt")
  /\ pc' = "model"
  /\ UNCHANGED << main_vars, parser_vars, one_spinner_vars, args,
                  system_context, log_content, parsed_log_metadata,
                  error_patterns_found, input_mode, scores, error_type,
                  impact_level, additional_context, spinner_running,
                  spinner_thread_alive, model_spinner_running,
                  model_spinner_thread_alive, response, analysis,
                  report_saved, temp_dir, raised >>

\* the exceptions the model collaborator raises
ModelFailures ==
  { [type |-> "ConnectionError", message |-> "connection refused"],
    [type |-> "TimeoutError", message |-> "timed out"] }

\* lines 386-388: ChatModel.from_name raises, before any spinner is touched
ModelInitFails ==
  /\ pc = "model"
  /\ calls' = Append(calls, "ChatModel.from_name")
  /\ \E f \in ModelFailures : RaiseInTry(f.type, f.message)
  /\ UNCHANGED << main_vars, parser_vars, one_spinner_vars, args,
                  system_context, log_content, parsed_log_metadata,
                  error_patterns_found, input_mode, scores, error_type,
                  impact_level, additional_context, prompt,
                  model_spinner_running, model_spinner_thread_alive, response,
                  analysis, report_saved, temp_dir >>

\* as InvokeModel, the model being invoked as soon as the context is
\* gathered, whether or not the prompt has been composed
InvokeModel_BeforePrompt ==
  /\ pc \in {"prompt", "model"}
  /\ SpinnerStop
  /\ ModelSpinnerStart
  /\ calls' = calls \o <<"ChatModel.from_name", "model.create">>
  /\ pc' = "awaiting"
  /\ UNCHANGED << main_vars, parser_vars, one_spinner_vars, args,
                  system_context, log_content, parsed_log_metadata,
                  error_patterns_found, input_mode, scores, error_type,
                  impact_level, additional_context, prompt, response,
                  analysis, report_saved, temp_dir, raised >>

\* lines 386-396: the first spinner is stopped, the model spinner started,
\* and the coroutine awaits model.create
InvokeModel ==
  /\ pc = "model"
  /\ SpinnerStop
  /\ ModelSpinnerStart
  /\ calls' = calls \o <<"ChatModel.from_name", "model.create">>
  /\ pc' = "awaiting"
  /\ UNCHANGED << main_vars, parser_vars, one_spinner_vars, args,
                  system_context, log_content, parsed_log_metadata,
                  error_patterns_found, input_mode, scores, error_type,
                  impact_level, additional_context, prompt, response,
                  analysis, report_saved, temp_dir, raised >>

\* A response of the model collaborator, by what lines 400-415 test of it:
\*   is_list, length, first_has_text   isinstance(response, list),
\*                                     len(response), hasattr(response[0], "text")
\*   has_messages                      hasattr(response, "messages")
\*   messages_is_list, messages_length, message_has_text
\*                                     the same three tests of response.messages
\*   has_text                          hasattr(response, "text")
Response(is_list, length, first_has_text, has_messages, messages_is_list, messages_length, message_has_text, has_text) ==
  [is_list |-> is_list, length |-> length, first_has_text |-> first_has_text,
   has_messages |-> has_messages, messages_is_list |-> messages_is_list,
   messages_length |-> messages_length,
   message_has_text |-> message_has_text, has_text |-> has_text]

\* the shapes a response of the model collaborator may have (a list has
\* neither a messages nor a text attribute)
ResponseShapes ==
  { Response(TRUE, 1, TRUE, FALSE, FALSE, 0, FALSE, FALSE),
    Response(TRUE, 1, FALSE, FALSE, FALSE, 0, FALSE, FALSE),
    Response(TRUE, 0, FALSE, FALSE, FALSE, 0, FALSE, FALSE),
    Response(FALSE, 0, FALSE, TRUE, TRUE, 1, TRUE, FALSE),
    Response(FALSE, 0, FALSE, TRUE, TRUE, 1, TRUE, TRUE),
    Response(FALSE, 0, FALSE, TRUE, TRUE, 1, FALSE, FALSE),
    Response(FALSE, 0, FALSE, TRUE, TRUE, 0, FALSE, TRUE),
    Response(FALSE, 0, FALSE, TRUE, FALSE, 0, FALSE, FALSE),
    Response(FALSE, 0, FALSE, FALSE, FALSE, 0, FALSE, TRUE),
    Response(FALSE, 0, FALSE, FALSE, FALSE, 0, FALSE, FALSE) }

\* model.create returns; __exit__ of the model spinner stops it
ModelReturns ==
  /\ pc = "awaiting"
  /\ response' \in ResponseShapes
  /\ ModelSpinnerStop
  /\ pc' = "extract"
  /\ UNCHANGED << main_vars, parser_vars, one_spinner_vars, args,
                  system_context, log_content, parsed_log_metadata,
                  error_patterns_found, input_mode, scores, error_type,
                  impact_level, additional_context, prompt, calls,
                  spinner_running, spinner_thread_alive, analysis,
                  report_saved, temp_dir, raised >>

\* the number of times the run has called op
TimesCalled(op) ==
  Cardinality({i \in 1..Len(calls) : calls[i] = op})

\* as ModelFails, the failed call being made once more before giving up
ModelFails_RetriesOnce ==
  /\ pc = "awaiting"
  /\ ModelSpinnerStop
  /\ IF TimesCalled("model.create") < 2
       THEN /\ pc' = "model"
            /\ UNCHANGED << raised, spinner_running, spinner_thread_alive >>
       ELSE \E f \in ModelFailures : RaiseInTry(f.type, f.message)
  /\ UNCHANGED << main_vars, parser_vars, one_spinner_vars, args,
                  system_context, log_content, parsed_log_metadata,
                  error_patterns_found, input_mode, scores, error_type,
                  impact_level, additional_context, prompt, calls, response,
                  analysis, report_saved, temp_dir >>

\* model.create raises; __exit__ stops the model spinner and the exception
\* reaches the except clause
ModelFails ==
  /\ pc = "awaiting"
  /\ ModelSpinnerStop
  /\ \E f \in ModelFailures : RaiseInTry(f.type, f.message)
  /\ UNCHANGED << main_vars, parser_vars, one_spinner_vars, args,
                  system_context, log_content, parsed_log_metadata,
                  error_patterns_found, input_mode, scores, error_type,
                  impact_level, additional_context, prompt, calls, response,
                  analysis, report_saved, temp_dir >>

\* as ExtractText, the text attribute being tried before the messages
ExtractText_TextFirst(resp) ==
  IF resp.is_list /\ resp.length > 0
    THEN IF resp.first_has_text THEN "response[0].text"
                                ELSE "str(response[0])"
  ELSE IF resp.has_text
    THEN "response.text"
  ELSE IF resp.has_messages
    THEN IF resp.messages_is_list /\ resp.messages_length > 0
            /\ resp.message_has_text
           THEN "messages[0].text"
           ELSE "str(messages)"
  ELSE "str(response)"

\* lines 400-415
ExtractText(resp) ==
  IF resp.is_list /\ resp.length > 0
    THEN IF resp.first_has_text THEN "response[0].text"
                                ELSE "str(response[0])"
  ELSE IF resp.has_messages
    THEN IF resp.messages_is_list /\ resp.messages_length > 0
            /\ resp.message_has_text
           THEN "messages[0].text"
           ELSE "str(messages)"
  ELSE IF resp.has_text
    THEN "response.text"
  ELSE "str(response)"

ExtractAnalysis ==
  /\ pc = "extract"
  /\ analysis' = ExtractText(response)
  /\ pc' = "report"
  /\ UNCHANGED << main_vars, parser_vars, one_spinner_vars, args,
                  system_context, log_content, parsed_log_metadata,
                  error_patterns_found, input_mode, scores, error_type,
                  impact_level, additional_context, prompt, calls,
                  spinner_running, spinner_thread_alive,
                  model_spinner_running, model_spinner_thread_alive, response,
                  report_saved, temp_dir, raised >>

\* lines 417-442: the report is written and the analysis returned; the
\* finally clause stops the spinner
SaveReport ==
  /\ pc = "report"
  /\ calls' = Append(calls, "save_report")
  /\ report_saved' = TRUE
  /\ SpinnerStop
  /\ pc' = "returned"
  /\ UNCHANGED << main_vars, parser_vars, one_spinner_vars, args,
                  system_context, log_content, parsed_log_metadata,
                  error_patterns_found, input_mode, scores, error_type,
                  impact_level, additional_context, prompt,
                  model_spinner_running, model_spinner_thread_alive, response,
                  analysis, temp_dir, raised >>

\* resource_monitor.save_report raises (the file cannot be written)
SaveReportFails ==
  /\ pc = "report"
  /\ calls' = Append(calls, "save_report")
  /\ RaiseInTry("Exception", "Failed to save report")
  /\ UNCHANGED << main_vars, parser_vars, one_spinner_vars, args,
                  system_context, log_content, parsed_log_metadata,
                  error_patterns_found, input_mode, scores, error_type,
                  impact_level, additional_context, prompt,
                  model_spinner_running, model_spinner_thread_alive, response,
                  analysis, report_saved, temp_dir >>

\* _spin (lines 47-55): the animation thread of `spinner` finds the flag
\* cleared at its next test of it and ends
SpinnerThreadExits ==
  /\ spinner_thread_alive
  /\ ~spinner_running
  /\ spinner_thread_alive' = FALSE
  /\ UNCHANGED << main_vars, parser_vars, one_spinner_vars, args, pc,
                  system_context, log_content, parsed_log_metadata,
                  error_patterns_found, input_mode, scores, error_type,
                  impact_level, additional_context, prompt, calls,
                  spinner_running, model_spinner_running,
                  model_spinner_thread_alive, response, analysis,
                  report_saved, temp_dir, raised >>

\* the same for the animation thread of `model_spinner`
ModelSpinnerThreadExits ==
  /\ model_spinner_thread_alive
  /\ ~model_spinner_running
  /\ model_spinner_thread_alive' = FALSE
  /\ UNCHANGED << main_vars, parser_vars, one_spinner_vars, args, pc,
                  system_context, log_content, parsed_log_metadata,
                  error_patterns_found, input_mode, scores, error_type,
                  impact_level, additional_context, prompt, calls,
                  spinner_running, spinner_thread_alive,
                  model_spinner_running, response, analysis, report_saved,
                  temp_dir, raised >>

\* ResourceMonitor.__del__ (src/src/resource_monitor.py lines 26-31): once
\* perform_enhanced_rca has ended, its local resource_monitor is discarded
\* and shutil.rmtree removes temp_dir with the report in it
DelResourceMonitor ==
  /\ pc \in {"returned", "raised"}
  /\ temp_dir = "exists"
  /\ temp_dir' = "removed"
  /\ report_saved' = FALSE
  /\ UNCHANGED << main_vars, parser_vars, one_spinner_vars, args, pc,
                  system_context, log_content, parsed_log_metadata,
                  error_patterns_found, input_mode, scores, error_type,
                  impact_level, additional_context, prompt, calls,
                  spinner_running, spinner_thread_alive,
                  model_spinner_running, model_spinner_thread_alive, response,
                  analysis, raised >>

Next ==
  \/ Start
  \/ ParseLogFile
  \/ ScanSystem
  \/ LogFileMissing
  \/ QuickMode
  \/ Classify
  \/ Assess
  \/ GatherContext
  \/ BuildPrompt
  \/ ModelInitFails
  \/ InvokeModel
  \/ ModelReturns
  \/ ModelFails
  \/ ExtractAnalysis
  \/ SaveReport
  \/ SaveReportFails
  \/ SpinnerThreadExits
  \/ ModelSpinnerThreadExits
  \/ DelResourceMonitor

Spec ==
  Init /\ [][Next]_vars

(***************************************************************************)
(* The classifier and the impact assessor on their own: classify_error_type*)
(* and assess_impact applied to a description and a log text               *)
(***************************************************************************)
\* the log texts the three input modes hand to the classifier
LogTexts ==
  {QuickSentinel, NoRecentErrors, T_all_good, T_podman, T_unit, T_journal}

InitClassifier ==
  /\ error_desc \in Descs
  /\ log_content \in LogTexts
  /\ logfile_path = None
  /\ scan_system = FALSE
  /\ triage_mode = FALSE
  /\ filesystem = EmptyContext
  /\ dir_listing = <<>>
  /\ DOCLING_AVAILABLE = FALSE
  /\ pc = "classify"
  /\ InitLocals
  /\ ProcessFresh
  /\ NoSpinner
  /\ NoMain

NextClassifier ==
  \/ Classify
  \/ Assess

SpecClassifier ==
  InitClassifier /\ [][NextClassifier]_vars

(***************************************************************************)
(* The prompt composer on its own: build_enhanced_prompt applied to every  *)
(* category, impact level, triage flag and bag of context entries          *)
(***************************************************************************)
\* the values of SystemErrorTypes (lines 28-37)
SystemErrorTypes ==
  {"kernel", "selinux", "java", "systemd", "network", "application", "boot",
   "hardware", "security", "container"}

\* the values of ImpactLevel (lines 42-46)
ImpactLevels ==
  {"critical", "high", "medium", "low", "info"}

\* the additional_context bags: each optional entry present or absent
ContextBags ==
  { (IF d THEN ("docling_metadata" :> "general_log") @@
               ("error_patterns" :> <<>>) @@ ("docling_available" :> TRUE)
          ELSE EmptyContext)
    @@ (IF h THEN "container_health" :> "data" ELSE EmptyContext)
    @@ (IF r THEN "resource_usage" :> "data" ELSE EmptyContext)
    @@ (IF c THEN "cpu_info" :> "error" ELSE EmptyContext)
    : d \in BOOLEAN, h \in BOOLEAN, r \in BOOLEAN, c \in BOOLEAN }

InitPrompt ==
  /\ error_desc \in RunDescs
  /\ log_content \in {QuickSentinel, T_unit}
  /\ logfile_path = None
  /\ scan_system = FALSE
  /\ triage_mode \in BOOLEAN
  /\ filesystem = EmptyContext
  /\ dir_listing = <<>>
  /\ DOCLING_AVAILABLE = TRUE
  /\ pc = "prompt"
  /\ system_context = "os_info, selinux_status, memory_info, disk_space, system_load"
  /\ parsed_log_metadata = ""
  /\ error_patterns_found = <<>>
  /\ input_mode = ""
  /\ scores = <<>>
  /\ error_type \in SystemErrorTypes
  /\ impact_level \in ImpactLevels
  /\ additional_context \in ContextBags
  /\ prompt = <<>>
  /\ calls = <<>>
  /\ spinner_running = TRUE
  /\ spinner_thread_alive = TRUE
  /\ model_spinner_running = FALSE
  /\ model_spinner_thread_alive = FALSE
  /\ response = ""
  /\ analysis = ""
  /\ report_saved = FALSE
  /\ temp_dir = "exists"
  /\ raised = NoException
  /\ ProcessFresh
  /\ NoSpinner
  /\ NoMain

NextPrompt ==
  BuildPrompt

SpecPrompt ==
  InitPrompt /\ [][NextPrompt]_vars

(***************************************************************************)
(* Whole runs of perform_enhanced_rca on full-sentence error descriptions  *)
(***************************************************************************)
\* "Failed to start apache2.service"
D_failed_to_start_apache2 ==
  <<"F","a","i","l","e","d"," ","t","o"," ","s","t","a","r","t"," ","a","p","a","c","h","e","2",".","s","e","r","v","i","c","e">>

\* "SELinux denied access to httpd, authentication failed"
D_selinux_denied ==
  <<"S","E","L","i","n","u","x"," ","d","e","n","i","e","d"," ","a","c","c","e","s","s"," ","t","o"," ","h","t","t","p","d",","," ","a","u","t","h","e","n","t","i","c","a","t","i","o","n"," ","f","a","i","l","e","d">>

\* "app won't start"
D_app_wont_start ==
  <<"a","p","p"," ","w","o","n","'","t"," ","s","t","a","r","t">>

SentenceDescs ==
  {D_failed_to_start_apache2, D_selinux_denied, D_app_wont_start}

\* a call of perform_enhanced_rca with one of the sentences as error_desc
InitSentences ==
  /\ error_desc \in SentenceDescs
  /\ logfile_path \in LogfilePaths
  /\ scan_system \in BOOLEAN
  /\ triage_mode \in BOOLEAN
  /\ \E w \in Worlds :
       /\ filesystem = w.files
       /\ dir_listing = w.listing
       /\ DOCLING_AVAILABLE = w.docling
  /\ pc = "start"
  /\ log_content = <<>>
  /\ InitLocals
  /\ ProcessFresh
  /\ NoSpinner
  /\ NoMain

SpecSentences ==
  InitSentences /\ [][Next]_vars

(***************************************************************************)
(* The command line: parse_enhanced_args and main (src/src/rca_agent.py)   *)
(***************************************************************************)
\* the greatest number of command-line arguments after the program name
MaxArgs == 3

A_error ==
  <<"-","-","e","r","r","o","r">>

A_logfile ==
  <<"-","-","l","o","g","f","i","l","e">>

A_scan_system ==
  <<"-","-","s","c","a","n","-","s","y","s","t","e","m">>

A_hours ==
  <<"-","-","h","o","u","r","s">>

A_triage ==
  <<"-","-","t","r","i","a","g","e">>

A_llm_framework ==
  <<"-","-","l","l","m","-","f","r","a","m","e","w","o","r","k">>

A_help ==
  <<"-","-","h","e","l","p">>

A_h ==
  <<"-","h">>

A_license ==
  <<"-","-","l","i","c","e","n","s","e">>

A_l ==
  <<"-","l">>

A_verbose ==
  <<"-","-","v","e","r","b","o","s","e">>

V_disk_full ==
  <<"d","i","s","k"," ","f","u","l","l">>

V_12 ==
  <<"1","2">>

V_many ==
  <<"m","a","n","y">>

V_Granite_IO ==
  <<"G","r","a","n","i","t","e","_","I","O">>

V_beeai ==
  <<"b","e","e","a","i">>

V_granite_io ==
  <<"g","r","a","n","i","t","e","_","i","o">>

V_granite_dash_io ==
  <<"g","r","a","n","i","t","e","-","i","o">>

V_empty ==
  <<>>

\* the words a command line is made of
ArgTokens ==
  {A_error, A_logfile, A_scan_system, A_hours, A_triage, A_llm_framework,
   A_help, A_license, A_verbose, V_disk_full, P_messages, V_12, V_many,
   V_Granite_IO, V_empty}

ArgLists ==
  UNION {[1..n -> ArgTokens] : n \in 0..MaxArgs}

DigitValue ==
  [c \in {"0", "1", "2", "3", "4", "5", "6", "7", "8", "9"} |->
     CASE c = "0" -> 0 [] c = "1" -> 1 [] c = "2" -> 2 [] c = "3" -> 3
       [] c = "4" -> 4 [] c = "5" -> 5 [] c = "6" -> 6 [] c = "7" -> 7
       [] c = "8" -> 8 [] c = "9" -> 9]

\* int(s) does not raise ValueError (for the unsigned decimal words and the
\* non-numbers a command line of ArgTokens holds)
IsInt(s) ==
  Len(s) > 0 /\ \A i \in 1..Len(s) : s[i] \in DOMAIN DigitValue

\* int(s)
RECURSIVE IntFrom(_, _, _)
IntFrom(s, i, acc) ==
  IF i > Len(s) THEN acc
  ELSE IntFrom(s, i + 1, 10 * acc + DigitValue[s[i]])

IntOf(s) ==
  IntFrom(s, 1, 0)

\* what parse_enhanced_args ends with: the dictionary, sys.exit(code) after
\* the text shown, or an exception
Parsed(a) ==
  [outcome |-> "args", shown |-> "", code |-> -1, args |-> a]

SysExit(shown, code) ==
  [outcome |-> "exit", shown |-> shown, code |-> code, args |-> NoArgs]

Raises(type) ==
  [outcome |-> type, shown |-> "", code |-> -1, args |-> NoArgs]

\* lines 59-102: the loop over sys.argv, i counting from 1 over sys.argv[1:]
RECURSIVE ParseFrom(_, _, _)
ParseFrom(av, i, a) ==
  IF i > Len(av)
    THEN IF a.error = <<>> THEN SysExit("error required, usage", 1)
                           ELSE Parsed(a)
  ELSE IF av[i] = A_error /\ i + 1 <= Len(av)
    THEN ParseFrom(av, i + 2, [a EXCEPT !.error = av[i + 1]])
  ELSE IF av[i] = A_logfile /\ i + 1 <= Len(av)
    THEN ParseFrom(av, i + 2, [a EXCEPT !.logfile = av[i + 1]])
  ELSE IF av[i] = A_scan_system
    THEN ParseFrom(av, i + 1,
                   [a EXCEPT !.scan_system = TRUE, !.mode = "system_scan"])
  ELSE IF av[i] = A_hours /\ i + 1 <= Len(av)
    THEN IF IsInt(av[i + 1])
           THEN ParseFrom(av, i + 2,
                          [a EXCEPT !.hours_back = IntOf(av[i + 1])])
           ELSE Raises("ValueError")
  ELSE IF av[i] = A_triage
    THEN ParseFrom(av, i + 1,
                   [a EXCEPT !.triage_mode = TRUE, !.mode = "triage"])
  ELSE IF av[i] = A_llm_framework /\ i + 1 <= Len(av)
    THEN LET framework == Lower(av[i + 1]) IN
         IF framework \in {V_beeai, V_granite_dash_io, V_granite_io}
           THEN ParseFrom(av, i + 2,
                  [a EXCEPT !.framework =
                     IF framework \in {V_granite_dash_io, V_granite_io}
                       THEN "granite-io" ELSE "beeai"])
           ELSE SysExit("invalid framework", 1)
  ELSE IF av[i] \in {A_help, A_h}
    THEN SysExit("usage", 0)
  ELSE IF av[i] \in {A_license, A_l}
    THEN SysExit("license", 0)
  ELSE SysExit("unknown argument, usage", 1)

\* parse_enhanced_args (lines 36-102), av being sys.argv[1:]
parse_enhanced_args(av) ==
  IF Len(av) < 1 THEN SysExit("usage", 1)
  ELSE IF av[1] \in {A_license, A_l} THEN SysExit("license", 0)
  ELSE ParseFrom(av, 1, NoArgs)


\* line 246: the parameters of perform_enhanced_rca
perform_enhanced_rca_params ==
  << "error_desc", "logfile_path", "scan_system", "hours_back", "triage_mode" >>

\* lines 173-180: the positional arguments main passes
MainCallArguments(a) ==
  << a.error, a.logfile, a.scan_system, a.hours_back, a.triage_mode,
     a.framework >>

\* a process in which perform_enhanced_rca has not been called, on one of
\* the hosts of Worlds
Uncalled ==
  /\ error_desc = <<>>
  /\ logfile_path = None
  /\ scan_system = FALSE
  /\ triage_mode = FALSE
  /\ \E w \in Worlds :
       /\ filesystem = w.files
       /\ dir_listing = w.listing
       /\ DOCLING_AVAILABLE = w.docling
  /\ pc = "uncalled"
  /\ log_content = <<>>
  /\ InitLocals

\* the process has been started with a command line; nothing is called yet
InitMain ==
  /\ argv \in ArgLists
  /\ main_pc = "parse"
  /\ cli_args = NoArgs
  /\ main_exception = NoException
  /\ exit_code = -1
  /\ Uncalled
  /\ ProcessFresh
  /\ NoSpinner

\* line 163: parse_enhanced_args; its sys.exit ends the process, its
\* ValueError is caught by `except Exception` (lines 198-213)
ParseArgs ==
  /\ main_pc = "parse"
  /\ LET r == parse_enhanced_args(argv) IN
       CASE r.outcome = "args" ->
              /\ cli_args' = r.args
              /\ main_pc' = "call"
              /\ UNCHANGED << main_exception, exit_code >>
         [] r.outcome = "exit" ->
              /\ exit_code' = r.code
              /\ main_pc' = IF r.shown \in {"usage", "license"} /\ r.code = 0
                              THEN "shown" ELSE "rejected"
              /\ UNCHANGED << cli_args, main_exception >>
         [] OTHER ->
              /\ main_exception' =
                   [type |-> r.outcome, message |-> "invalid literal for int()",
                    cause |-> ""]
              /\ exit_code' = 1
              /\ main_pc' = "failed"
              /\ UNCHANGED cli_args
  /\ UNCHANGED << argv, parser_vars, one_spinner_vars, args, pc,
                  system_context, log_content, parsed_log_metadata,
                  error_patterns_found, input_mode, scores, error_type,
                  impact_level, additional_context, prompt, calls,
                  spinner_running, spinner_thread_alive,
                  model_spinner_running, model_spinner_thread_alive,
                  response, analysis, report_saved, temp_dir, raised >>

\* lines 173-180: the call perform_enhanced_rca(...); more positional
\* arguments than parameters is a TypeError raised by the call itself
CallPerformRca ==
  /\ main_pc = "call"
  /\ LET positional == MainCallArguments(cli_args) IN
       IF Len(positional) > Len(perform_enhanced_rca_params)
         THEN /\ main_exception' =
                   [type |-> "TypeError",
                    message |-> "takes from 1 to 5 positional arguments but 6 were given",
                    cause |-> ""]
              /\ UNCHANGED << error_desc, logfile_path, scan_system,
                              triage_mode, pc >>
         ELSE /\ error_desc' = positional[1]
              /\ logfile_path' = positional[2]
              /\ scan_system' = positional[3]
              /\ triage_mode' = positional[5]
              /\ pc' = "start"
              /\ UNCHANGED main_exception
  /\ main_pc' = "called"
  /\ UNCHANGED << argv, cli_args, exit_code, parser_vars, one_spinner_vars,
                  filesystem, dir_listing, DOCLING_AVAILABLE,
                  system_context, log_content, parsed_log_metadata,
                  error_patterns_found, input_mode, scores, error_type,
                  impact_level, additional_context, prompt, calls,
                  spinner_running, spinner_thread_alive,
                  model_spinner_running, model_spinner_thread_alive,
                  response, analysis, report_saved, temp_dir, raised >>

\* lines 182-213: the call has ended.  With the analysis returned main
\* prints it and ends (exit status 0); with an exception, of the call or of
\* the run, the handler of `except Exception` prints it and calls sys.exit(1)
MainEnds ==
  /\ main_pc = "called"
  /\ main_exception # NoException \/ pc \in {"returned", "raised"}
  /\ IF main_exception # NoException
       THEN /\ exit_code' = 1
            /\ main_pc' = "failed"
            /\ UNCHANGED main_exception
       ELSE IF pc = "raised"
         THEN /\ exit_code' = 1
              /\ main_pc' = "failed"
              /\ main_exception' = raised
         ELSE /\ exit_code' = 0
              /\ main_pc' = "done"
              /\ UNCHANGED main_exception
  /\ UNCHANGED << argv, cli_args, parser_vars, one_spinner_vars, args, pc,
                  system_context, log_content, parsed_log_metadata,
                  error_patterns_found, input_mode, scores, error_type,
                  impact_level, additional_context, prompt, calls,
                  spinner_running, spinner_thread_alive,
                  model_spinner_running, model_spinner_thread_alive,
                  response, analysis, report_saved, temp_dir, raised >>

\* lines 195-197: the user interrupts main; sys.exit(1)
KeyboardInterrupt ==
  /\ main_pc \in {"parse", "call", "called"}
  /\ main_exception' = [type |-> "KeyboardInterrupt", message |-> "",
                        cause |-> ""]
  /\ exit_code' = 1
  /\ main_pc' = "interrupted"
  /\ UNCHANGED << argv, cli_args, parser_vars, one_spinner_vars, args, pc,
                  system_context, log_content, parsed_log_metadata,
                  error_patterns_found, input_mode, scores, error_type,
                  impact_level, additional_context, prompt, calls,
                  spinner_running, spinner_thread_alive,
                  model_spinner_running, model_spinner_thread_alive,
                  response, analysis, report_saved, temp_dir, raised >>

NextMain ==
  \/ ParseArgs
  \/ CallPerformRca
  \/ MainEnds
  \/ KeyboardInterrupt

SpecMain ==
  InitMain /\ [][NextMain]_vars
(***************************************************************************)
(* System-scan mode over large logs                                        *)
(***************************************************************************)
\* warnings in the log file of many warnings
ManyWarnings == 49

\* lines of the long log file
LongFileLines == 1001

\* s * n
Repeat(s, n) ==
  [i \in 1..(Len(s) * n) |-> s[((i - 1) % Len(s)) + 1]]

\* a log of one fault and ManyWarnings warnings, on one line
T_many_warnings ==
  <<"f","a","u","l","t">> \o Repeat(<<" ","w","a","r","n">>, ManyWarnings)

\* a log of LongFileLines lines, a fault on the first
T_long ==
  <<"f","a","u","l","t">> \o Repeat(<<"\n">>, LongFileLines - 1)

\* hosts whose logs are large
LargeLogWorlds ==
  { [files |-> (P_messages :> File(T_many_warnings, FALSE, FALSE, FALSE, TRUE)),
     listing |-> <<P_messages>>,
     docling |-> FALSE],
    [files |-> (P_messages :> File(T_long, FALSE, FALSE, FALSE, TRUE)),
     listing |-> <<P_messages>>,
     docling |-> TRUE] }

\* a call of perform_enhanced_rca with scan_system=True, on a host of
\* Worlds or, with the description "hello", on one of LargeLogWorlds
InitScan ==
  /\ \E w \in Worlds \cup LargeLogWorlds :
       /\ filesystem = w.files
       /\ dir_listing = w.listing
       /\ DOCLING_AVAILABLE = w.docling
       /\ IF w \in LargeLogWorlds
            THEN /\ error_desc = W_hello
                 /\ logfile_path = None
                 /\ triage_mode = FALSE
            ELSE /\ error_desc \in RunWords
                 /\ logfile_path \in {None, P_missing}
                 /\ triage_mode \in BOOLEAN
  /\ scan_system = TRUE
  /\ pc = "start"
  /\ log_content = <<>>
  /\ InitLocals
  /\ ProcessFresh
  /\ NoSpinner
  /\ NoMain

\* the run up to the additional context
NextScan ==
  \/ Start
  \/ ScanSystem
  \/ Classify
  \/ Assess
  \/ GatherContext

SpecScan ==
  InitScan /\ [][NextScan]_vars
(***************************************************************************)
(* DoclingLogParser.__init__ and the note of _initialize_converter         *)
(***************************************************************************)
\* DoclingLogParser objects constructed in one process
MaxParsers == 6

\* as ShowNoteOnce, the flag being kept by the instance: a new parser finds
\* it False
ShowNoteOnce_PerInstance ==
  /\ notes_printed' = notes_printed + 1
  /\ _note_shown' = TRUE

\* lines 62-64: the note is printed unless the flag of the class is set
ShowNoteOnce ==
  IF ~_note_shown
    THEN /\ notes_printed' = notes_printed + 1
         /\ _note_shown' = TRUE
    ELSE UNCHANGED << notes_printed, _note_shown >>

\* DoclingLogParser() (lines 35-69): with docling imported the converter is
\* made, DocumentConverter() succeeding or raising
NewDoclingLogParser ==
  /\ Len(parsers) < MaxParsers
  /\ \E converter_made \in BOOLEAN :
       IF DOCLING_AVAILABLE /\ converter_made
         THEN /\ ShowNoteOnce
              /\ parsers' = Append(parsers, [converter |-> TRUE])
         ELSE /\ parsers' = Append(parsers, [converter |-> FALSE])
              /\ UNCHANGED << notes_printed, _note_shown >>
  /\ UNCHANGED << main_vars, one_spinner_vars, args, pc, system_context,
                  log_content, parsed_log_metadata, error_patterns_found,
                  input_mode, scores, error_type, impact_level,
                  additional_context, prompt, calls, spinner_running,
                  spinner_thread_alive, model_spinner_running,
                  model_spinner_thread_alive, response, analysis,
                  report_saved, temp_dir, raised >>

\* the module has been imported, no parser constructed
InitParsers ==
  /\ ProcessFresh
  /\ Uncalled
  /\ NoSpinner
  /\ NoMain

NextParsers ==
  NewDoclingLogParser

SpecParsers ==
  InitParsers /\ [][NextParsers]_vars
(***************************************************************************)
(* ASCIISpinner (src/src/spinner_utils.py): one spinner, any callers       *)
(***************************************************************************)
\* calls of start() and stop() made on the spinner
MaxSpinnerCalls == 5

\* start() (lines 57-62): a new animation thread unless the flag is set
start ==
  /\ ~joining
  /\ Len(spinner_calls) < MaxSpinnerCalls
  /\ spinner_calls' = Append(spinner_calls, "start")
  /\ IF ~running
       THEN /\ running' = TRUE
            /\ threads_alive' = threads_alive + 1
       ELSE UNCHANGED << running, threads_alive >>
  /\ UNCHANGED << joining, main_vars, parser_vars, args, pc, system_context,
                  log_content, parsed_log_metadata, error_patterns_found,
                  input_mode, scores, error_type, impact_level,
                  additional_context, prompt, calls, spinner_running,
                  spinner_thread_alive, model_spinner_running,
                  model_spinner_thread_alive, response, analysis,
                  report_saved, temp_dir, raised >>

\* stop() up to line 69: the flag is cleared and the caller waits in
\* self.thread.join(timeout=1.0)
stop ==
  /\ ~joining
  /\ Len(spinner_calls) < MaxSpinnerCalls
  /\ spinner_calls' = Append(spinner_calls, "stop")
  /\ IF running
       THEN /\ running' = FALSE
            /\ joining' = TRUE
       ELSE UNCHANGED << running, joining >>
  /\ UNCHANGED << threads_alive, main_vars, parser_vars, args, pc,
                  system_context,
                  log_content, parsed_log_metadata, error_patterns_found,
                  input_mode, scores, error_type, impact_level,
                  additional_context, prompt, calls, spinner_running,
                  spinner_thread_alive, model_spinner_running,
                  model_spinner_thread_alive, response, analysis,
                  report_saved, temp_dir, raised >>

\* _spin (lines 47-55): an animation thread wakes from its sleep, finds the
\* flag cleared and ends; with the flag set it goes on
_spin ==
  /\ threads_alive > 0
  /\ ~running
  /\ threads_alive' = threads_alive - 1
  /\ UNCHANGED << running, spinner_calls, joining, main_vars, parser_vars,
                  args, pc, system_context,
                  log_content, parsed_log_metadata, error_patterns_found,
                  input_mode, scores, error_type, impact_level,
                  additional_context, prompt, calls, spinner_running,
                  spinner_thread_alive, model_spinner_running,
                  model_spinner_thread_alive, response, analysis,
                  report_saved, temp_dir, raised >>

\* line 69: join returns, the thread having ended or the second having
\* passed, and stop() returns (lines 70-72)
JoinReturns ==
  /\ joining
  /\ joining' = FALSE
  /\ UNCHANGED << running, threads_alive, spinner_calls, main_vars,
                  parser_vars, args, pc, system_context,
                  log_content, parsed_log_metadata, error_patterns_found,
                  input_mode, scores, error_type, impact_level,
                  additional_context, prompt, calls, spinner_running,
                  spinner_thread_alive, model_spinner_running,
                  model_spinner_thread_alive, response, analysis,
                  report_saved, temp_dir, raised >>

\* ASCIISpinner() has been constructed (lines 30-45)
InitSpinner ==
  /\ NoSpinner
  /\ Uncalled
  /\ ProcessFresh
  /\ NoMain

NextSpinner ==
  \/ start
  \/ stop
  \/ _spin
  \/ JoinReturns

SpecSpinner ==
  InitSpinner /\ [][NextSpinner]_vars
(***************************************************************************)
(* Properties                                                              *)
(***************************************************************************)
\* the operation or collaborator op has been invoked by the run
Called(op) ==
  \E i \in 1..Len(calls) : calls[i] = op

\* C1: whenever the combined text has no match for any pattern of any
\* category (every score is zero), classify_error_type returns
\* `application`.
C1_ZeroMatchesGiveApplication ==
  (Called("classify_error_type") /\ \A i \in 1..Len(scores) : scores[i] = 0)
    => error_type = "application"

C2_TableOrder ==
  <<"kernel", "selinux", "java", "systemd", "network", "boot", "container">>

\* C2: classify_error_type returns the category with the greatest summed
\* occurrence count, and among categories sharing the greatest count the
\* one that comes first in the table order kernel, selinux, java, systemd,
\* network, boot, container; the result is thereby fixed by the scores of
\* the input.
C2_MaxCountFirstInTableOrder ==
  Called("classify_error_type") =>
    /\ Len(scores) = Len(C2_TableOrder)
    /\ \A i \in 1..Len(C2_TableOrder) :
         error_patterns[i].error_type = C2_TableOrder[i]
    /\ \E r \in 1..Len(C2_TableOrder) :
         /\ error_type = C2_TableOrder[r]
         /\ \A i \in 1..Len(scores) : scores[i] <= scores[r]
         /\ \A i \in 1..(r - 1) : scores[i] < scores[r]

\* two categories share a positive greatest score and the earlier one is
\* returned
C2_TieWitness ==
  /\ Called("classify_error_type")
  /\ \E r \in 1..Len(scores), j \in 1..Len(scores) :
       /\ r < j
       /\ scores[r] = scores[j]
       /\ scores[r] > 0
       /\ \A i \in 1..Len(scores) : scores[i] <= scores[r]
       /\ error_type = C2_TableOrder[r]

\* the levels more severe than a level
C3_MoreSevere ==
  [critical |-> {}, high |-> {"critical"}, medium |-> {"critical", "high"},
   low |-> {"critical", "high", "medium"}]

\* C3: assess_impact returns the most severe level (critical > high >
\* medium > low) of which at least one pattern is found in the text: a
\* returned tier has a match and no more severe tier has one, and a tier
\* with a match is never passed over for a less severe result; so any
\* critical match gives `critical` whatever else matches.
C3_MostSevereMatchingLevel ==
  Called("assess_impact") =>
    LET t == CombinedText(error_desc, log_content) IN
    /\ LevelMatches("critical", t) => impact_level = "critical"
    /\ \A l \in DOMAIN C3_MoreSevere :
         LevelMatches(l, t) => impact_level \in C3_MoreSevere[l] \cup {l}
    /\ impact_level \in DOMAIN C3_MoreSevere =>
         /\ LevelMatches(impact_level, t)
         /\ \A m \in C3_MoreSevere[impact_level] : ~LevelMatches(m, t)

\* `critical` is returned for a text in which patterns of lower tiers are
\* found as well
C3_CriticalAmongLowerWitness ==
  /\ Called("assess_impact")
  /\ impact_level = "critical"
  /\ LET t == CombinedText(error_desc, log_content) IN
     /\ LevelMatches("high", t) \/ LevelMatches("medium", t)
          \/ LevelMatches("low", t)

\* no pattern of the impact table is found in the text
C4_NoTierPatternMatches ==
  LET t == CombinedText(error_desc, log_content) IN
  \A i \in 1..Len(impact_indicators) :
    \A j \in 1..Len(impact_indicators[i].patterns) :
      ~Search(impact_indicators[i].patterns[j], t)

\* C4: assess_impact returns `info` if and only if no pattern of the four
\* tiers critical, high, medium, low is found in the combined lower-cased
\* text.
C4_InfoIffNoPatternMatches ==
  Called("assess_impact") =>
    /\ {impact_indicators[i].level : i \in 1..Len(impact_indicators)}
         = {"critical", "high", "medium", "low"}
    /\ impact_level = "info" <=> C4_NoTierPatternMatches

C4_InfoWitness ==
  /\ Called("assess_impact")
  /\ impact_level = "info"
  /\ C4_NoTierPatternMatches

\* C5: whenever an explicit log file path is given and does not exist, the
\* run fails and the classifier is never invoked, whatever the system-scan
\* and triage flags are.
C5_MissingFileNeverClassified ==
  (logfile_path # None /\ logfile_path \notin DOMAIN filesystem) =>
    /\ ~Called("classify_error_type")
    /\ pc # "returned"

\* C6: when the explicit log file does not exist, the exception that
\* reaches the caller is a FileNotFoundError; the wrapped "Failed to get
\* response from model" exception stands for failures of the model call
\* only.
C6_MissingFileRaisesFileNotFound ==
  (pc = "raised" /\ input_mode = "missing") =>
    /\ raised.type = "FileNotFoundError"
    /\ raised.message # "Failed to get response from model"

\* the description on its own has no match for any category pattern nor
\* for any impact pattern
C7_DescMatchesNothing ==
  LET d == Lower(error_desc) IN
  /\ \A i \in 1..Len(error_patterns) :
       \A j \in 1..Len(error_patterns[i].patterns) :
         FindAllCount(error_patterns[i].patterns[j], d) = 0
  /\ \A i \in 1..Len(impact_indicators) :
       \A j \in 1..Len(impact_indicators[i].patterns) :
         ~Search(impact_indicators[i].patterns[j], d)

\* C7: in quick mode the log text is the fixed sentinel, and a description
\* that matches no category pattern and no impact pattern is classified as
\* `application` with impact `info`.
C7_QuickModeDefaults ==
  (input_mode = "quick" /\ pc = "context") =>
    /\ log_content = QuickSentinel
    /\ C7_DescMatchesNothing =>
         (error_type = "application" /\ impact_level = "info")

\* context gathering has run to its end (a run that get_container_health
\* ends with an exception leaves it half-way, see C19)
ContextGathered ==
  /\ DOMAIN additional_context # {}
  /\ ~(pc = "raised" /\ calls[Len(calls)] = "get_container_health")

C10_Headers ==
  << "## Root Cause Analysis", "## Technical Evidence", "## Impact Assessment",
     "## Immediate Fix", "## Long-term Prevention", "## Advanced Diagnostics",
     "## Security Considerations" >>

\* the places of the prompt that hold the fixed text s
C10_PlacesOf(s) ==
  {i \in 1..Len(prompt) : prompt[i].part = "literal" /\ prompt[i].text = s}

\* the places of the prompt that hold an optional context block
C10_ContextBlockPlaces ==
  {i \in 1..Len(prompt) :
     prompt[i].part \in {"docling_info", "container_info", "resource_info"}}

\* C10: whatever the category, impact level, triage flag and context blocks
\* are, the prompt holds the error description verbatim and the seven
\* section headers Root Cause Analysis, Technical Evidence, Impact
\* Assessment, Immediate Fix, Long-term Prevention, Advanced Diagnostics,
\* Security Considerations, in that order, after every context block.
C10_PromptHoldsDescAndHeaders ==
  Called("build_enhanced_prompt") =>
    /\ \E i \in 1..Len(prompt) :
         prompt[i].part = "error_desc" /\ prompt[i].text = error_desc
    /\ \A k \in 1..Len(C10_Headers) : C10_PlacesOf(C10_Headers[k]) # {}
    /\ \A k \in 1..(Len(C10_Headers) - 1) :
         \A i \in C10_PlacesOf(C10_Headers[k]),
            j \in C10_PlacesOf(C10_Headers[k + 1]) : i < j
    /\ \A b \in C10_ContextBlockPlaces,
          i \in C10_PlacesOf(C10_Headers[1]) : b < i

\* a prompt built with all three context blocks and the triage guidance
C10_AllBlocksWitness ==
  /\ Called("build_enhanced_prompt")
  /\ triage_mode
  /\ \A name \in {"docling_info", "container_info", "resource_info",
                  "triage_guidance"} :
       \E i \in 1..Len(prompt) : prompt[i].part = name

(***************************************************************************)
(* Whole-run scenarios                                                     *)
(***************************************************************************)
\* the run has classified, assessed and gathered its additional context
ScenarioSettled ==
  pc \in {"prompt", "model", "awaiting", "extract", "report", "returned"}

\* C11: a run with description "Failed to start apache2.service", no log
\* file, no system scan and triage off yields category systemd and impact
\* high, with the resource-usage context present and the container-health
\* context absent.
C11_ApacheIsSystemdHigh ==
  (/\ error_desc = D_failed_to_start_apache2
   /\ input_mode = "quick"
   /\ ~triage_mode
   /\ ScenarioSettled) =>
     /\ error_type = "systemd"
     /\ impact_level = "high"
     /\ "resource_usage" \in DOMAIN additional_context
     /\ "container_health" \notin DOMAIN additional_context

\* C12: a run with description "SELinux denied access to httpd,
\* authentication failed", no log file and no system scan yields category
\* selinux and impact high.
C12_SelinuxDeniedIsSelinuxHigh ==
  (/\ error_desc = D_selinux_denied
   /\ input_mode = "quick"
   /\ ScenarioSettled) =>
     /\ error_type = "selinux"
     /\ impact_level = "high"

Extracted ==
  pc \in {"report", "returned"}

\* the three shapes that yield a text
C14_ListYieldsText ==
  response.is_list /\ response.length > 0 /\ response.first_has_text

C14_MessagesYieldText ==
  /\ response.has_messages
  /\ response.messages_is_list
  /\ response.messages_length > 0
  /\ response.message_has_text

C14_HasText ==
  response.has_text

\* C14 as stated: the shapes are tried in the order list, .messages, .text,
\* and when none of them yields a text the whole response is stringified.
C14_ShapesTriedInOrderElseWhole ==
  Extracted =>
    analysis = IF C14_ListYieldsText THEN "response[0].text"
               ELSE IF C14_MessagesYieldText THEN "messages[0].text"
               ELSE IF C14_HasText THEN "response.text"
               ELSE "str(response)"

\* C14, amended: the first of the shapes non-empty list, object with
\* .messages, object with .text that the response has decides alone.  A
\* non-empty list gives its first element's text, or that element
\* stringified; an object with .messages gives its first message's text, or
\* the messages stringified, and its .text is not tried; the whole response
\* is stringified exactly when it has none of the three shapes.
C14_FirstShapeDecides ==
  Extracted =>
    LET list == response.is_list /\ response.length > 0
        msgs == ~list /\ response.has_messages
        text == ~list /\ ~msgs /\ response.has_text
    IN  /\ analysis = "response[0].text" <=> (list /\ response.first_has_text)
        /\ analysis = "str(response[0])" <=> (list /\ ~response.first_has_text)
        /\ analysis = "messages[0].text" <=> (msgs /\ C14_MessagesYieldText)
        /\ analysis = "str(messages)" <=> (msgs /\ ~C14_MessagesYieldText)
        /\ analysis = "response.text" <=> text
        /\ analysis = "str(response)" <=> (~list /\ ~msgs /\ ~text)

\* a response with both .messages and .text has been read through .messages
C14_MessagesBeforeTextWitness ==
  /\ pc = "returned"
  /\ response.has_messages
  /\ response.has_text
  /\ C14_MessagesYieldText
  /\ analysis = "messages[0].text"

(***************************************************************************)
(* Failure of the model collaborator                                       *)
(***************************************************************************)
\* the run has ended with an exception raised by the model collaborator
ModelInvocationFailed ==
  /\ pc = "raised"
  /\ calls[Len(calls)] \in {"ChatModel.from_name", "model.create"}

\* C15: a failure raised while invoking the model collaborator reaches the
\* caller as one "Failed to get response from model" error, wrapped once,
\* that carries the original exception; no analysis text is returned and
\* no report is written.
C15_ModelFailureWrappedOnce ==
  ModelInvocationFailed =>
    /\ raised.type = "Exception"
    /\ raised.message = "Failed to get response from model"
    /\ raised.cause \in ModelFailures
    /\ analysis = ""
    /\ ~report_saved

C15_ModelTimeoutWitness ==
  /\ ModelInvocationFailed
  /\ Called("model.create")
  /\ raised.cause = [type |-> "TimeoutError", message |-> "timed out"]

(***************************************************************************)
(* The progress spinners                                                   *)
(***************************************************************************)
\* control has returned to the caller of perform_enhanced_rca
Exited ==
  pc \in {"returned", "raised"}

\* C16: when control returns to the caller, normally or by an exception at
\* any stage, every spinner the run started has been stopped and its
\* animation thread is no longer running.
C16_SpinnersStoppedOnExit ==
  Exited =>
    /\ ~spinner_running
    /\ ~model_spinner_running
    /\ ~spinner_thread_alive
    /\ ~model_spinner_thread_alive

(***************************************************************************)
(* No retries                                                              *)
(***************************************************************************)
\* C17: in every run the model collaborator is invoked at most once; a
\* failed model call is not made again, it ends the run with an error.
C17_ModelInvokedAtMostOnce ==
  /\ TimesCalled("model.create") <= 1
  /\ TimesCalled("ChatModel.from_name") <= 1
  /\ (pc = "model" => TimesCalled("model.create") = 0)

C17_FailedOnceWitness ==
  /\ pc = "raised"
  /\ TimesCalled("model.create") = 1
  /\ raised.cause = [type |-> "ConnectionError", message |-> "connection refused"]

(***************************************************************************)
(* Degrade and continue                                                    *)
(***************************************************************************)
\* C18: in explicit-file mode with an existing file, a failure or an error
\* of the parser never aborts the run: the run goes on to classification.
C18_ParseFailureNeverAborts ==
  (input_mode = "file" /\ pc = "raised") => Called("classify_error_type")

\* C19: a failure of get_container_health, get_top_info or get_cpu_info
\* never aborts the run: the run does not end with an exception at the
\* call of one of them, and once the context is gathered each collaborator
\* called has its entry in the additional context.
C19_CollaboratorFailureEmbedded ==
  /\ pc = "raised" =>
       calls[Len(calls)] \notin
         {"get_container_health", "get_top_info", "get_cpu_info"}
  /\ ContextGathered =>
       /\ Called("get_container_health") =>
            "container_health" \in DOMAIN additional_context
       /\ Called("get_top_info") =>
            "resource_usage" \in DOMAIN additional_context
       /\ Called("get_cpu_info") =>
            "cpu_info" \in DOMAIN additional_context

(***************************************************************************)
(* The persisted report                                                    *)
(***************************************************************************)
\* C20: the report outlives the run: after perform_enhanced_rca has
\* returned its analysis, also once its resource monitor has been
\* discarded, the report file it announced still exists.
C20_ReportOutlivesRun ==
  pc = "returned" => report_saved
(***************************************************************************)
(* The command line                                                        *)
(***************************************************************************)
\* main has ended
MainExited ==
  main_pc \in {"shown", "rejected", "failed", "interrupted", "done"}

\* C21: the process exits with 0 when help or the license was shown or the
\* analysis succeeded, and with 1 on a rejected command line, an
\* interruption or a failure of the run; a command line with a valid error
\* description, not interrupted, whose run has not failed, ends with 0.
C21_ExitCodes ==
  MainExited =>
    /\ main_pc \in {"shown", "done"} => exit_code = 0
    /\ main_pc \in {"rejected", "interrupted"} => exit_code = 1
    /\ (/\ parse_enhanced_args(argv).outcome = "args"
        /\ main_pc # "interrupted"
        /\ pc # "raised") => exit_code = 0

\* C22: the call main makes, with the framework as sixth positional
\* argument, is accepted by perform_enhanced_rca: it raises no TypeError
\* and the run starts.
C22_CallWithFrameworkAccepted ==
  main_pc = "called" =>
    /\ main_exception.type # "TypeError"
    /\ pc = "start"

(***************************************************************************)
(* Order of the stages                                                     *)
(***************************************************************************)
\* the stage of perform_enhanced_rca a call belongs to (lines 295-448)
StageRank ==
  [op \in {"get_system_context", "parse_log_file", "scan_system_logs",
           "classify_error_type", "assess_impact", "get_container_health",
           "get_top_info", "get_cpu_info", "build_enhanced_prompt",
           "ChatModel.from_name", "model.create", "save_report"} |->
     CASE op = "get_system_context" -> 0
       [] op \in {"parse_log_file", "scan_system_logs"} -> 1
       [] op = "classify_error_type" -> 2
       [] op = "assess_impact" -> 3
       [] op \in {"get_container_health", "get_top_info", "get_cpu_info"} -> 4
       [] op = "build_enhanced_prompt" -> 5
       [] op \in {"ChatModel.from_name", "model.create"} -> 6
       [] op = "save_report" -> 7]

\* the calls made so far are in the order of the stages, each stage at most
\* once, and a stage has been entered only with the stages before it done
StagesInOrder ==
  /\ \A i, j \in 1..Len(calls) :
       i < j => StageRank[calls[i]] <= StageRank[calls[j]]
  /\ \A op \in {"classify_error_type", "assess_impact",
                "build_enhanced_prompt", "save_report"} : TimesCalled(op) <= 1
  /\ Called("classify_error_type") => input_mode \in {"file", "scan", "quick"}
  /\ Called("assess_impact") => Called("classify_error_type") /\ error_type # ""
  /\ (\E i \in 1..Len(calls) : StageRank[calls[i]] = 4) =>
       Called("assess_impact") /\ impact_level # ""
  /\ Called("build_enhanced_prompt") =>
       /\ Called("assess_impact")
       /\ DOMAIN additional_context # {}
  /\ Called("ChatModel.from_name") =>
       Called("build_enhanced_prompt") /\ prompt # <<>>
  /\ Called("model.create") =>
       Called("build_enhanced_prompt") /\ prompt # <<>>
  /\ Called("save_report") => Called("model.create") /\ analysis # ""
  /\ pc = "returned" => Called("save_report")

\* C23: the stages of a run occur in the order log gathering,
\* classification, impact assessment, context gathering, prompt
\* composition, model invocation, report persistence, return; once a stage
\* has failed no further stage starts; the model is invoked only with a
\* composed prompt and the report is saved only after the model has answered.
C23_StagesInFixedOrder ==
  /\ []StagesInOrder
  /\ [][pc = "raised" => (pc' = "raised" /\ calls' = calls)]_vars

C23_FullRunWitness ==
  /\ pc = "returned"
  /\ input_mode = "file"
  /\ Called("get_container_health")
  /\ Called("get_top_info")
  /\ Called("save_report")
  /\ StagesInOrder

(***************************************************************************)
(* Input modes                                                             *)
(***************************************************************************)
\* the caller has given the path of a file that exists
ExistingFileGiven ==
  logfile_path # None /\ logfile_path \in DOMAIN filesystem

\* the number of input modes the run has taken
ModesTaken ==
  (IF Called("parse_log_file") THEN 1 ELSE 0)
  + (IF Called("scan_system_logs") THEN 1 ELSE 0)
  + (IF log_content = QuickSentinel /\ input_mode = "quick" THEN 1 ELSE 0)

\* C24: the input modes are mutually exclusive and taken in priority
\* order: a run that reaches classification has taken exactly one of
\* explicit-file, system-scan and quick mode, and with an existing explicit
\* file and the system-scan flag together only the file is read, no scan of
\* the system is made.
C24_ExactlyOneInputMode ==
  /\ Called("classify_error_type") =>
       /\ ModesTaken = 1
       /\ input_mode = "file" <=> Called("parse_log_file")
       /\ input_mode = "scan" <=> Called("scan_system_logs")
       /\ input_mode = "file" <=> ExistingFileGiven
       /\ input_mode = "scan" <=> (~ExistingFileGiven /\ scan_system)
       /\ input_mode = "quick" <=>
            (~ExistingFileGiven /\ ~scan_system /\ logfile_path = None)
  /\ ModesTaken <= 1
  /\ (ExistingFileGiven /\ scan_system) => ~Called("scan_system_logs")
  /\ (ExistingFileGiven /\ scan_system /\ input_mode # "") =>
       input_mode = "file" /\ Called("parse_log_file")

C24_FileAndScanWitness ==
  /\ ExistingFileGiven
  /\ scan_system
  /\ input_mode = "file"
  /\ Called("parse_log_file")
  /\ Called("classify_error_type")

(***************************************************************************)
(* Bounds of system-scan mode                                              *)
(***************************************************************************)
\* C25: the list of error-pattern records of a run has at most 100
\* entries, in explicit-file mode and in system-scan mode over any number
\* of sources and files, and the additional context carries at most the
\* first 20 of them.
C25_AtMost100ErrorPatterns ==
  /\ Len(error_patterns_found) <= max_errors
  /\ "error_patterns" \in DOMAIN additional_context =>
       /\ Len(additional_context["error_patterns"]) <= max_context_patterns
       /\ additional_context["error_patterns"] =
            Prefix(error_patterns_found, max_context_patterns)

\* lines of a file the scan of the system is to keep (the legacy
\* scan_system_logs: f.readlines()[-1000:])
last_lines_kept == 1000

\* the line scan_system_logs puts before the text of a file
FileHeader(path) ==
  <<"\n","-","-","-"," ">> \o path \o <<" ","-","-","-","\n">>

\* text[p:].startswith(lit), p counting from 1
StartsWithAt(text, lit, p) ==
  /\ p + Len(lit) - 1 <= Len(text)
  /\ SubSeq(text, p, p + Len(lit) - 1) = lit

\* the lines of the text that follows the file header at position h of the
\* bundle, up to the next file header, the next source or the end
ContributionLines(text, path, h) ==
  LET first == h + Len(FileHeader(path))
      ends  == {q \in first..Len(text) :
                  \/ StartsWithAt(text, <<"\n","-","-","-"," ">>, q)
                  \/ StartsWithAt(text, <<"\n","\n","=","=","="," ">>, q)}
      last  == IF ends = {} THEN Len(text) + 1 ELSE SetMin(ends)
  IN  1 + Cardinality({q \in first..(last - 1) : text[q] = "\n"})

\* C26: in system-scan mode each log file contributes at most its last
\* 1000 lines to the bundle, whatever its length.
C26_FileContributesAtMost1000Lines ==
  input_mode = "scan" =>
    \A path \in DOMAIN filesystem :
      \A h \in 1..Len(log_content) :
        StartsWithAt(log_content, FileHeader(path), h) =>
          ContributionLines(log_content, path, h) <= last_lines_kept

(***************************************************************************)
(* Failed sources of system-scan mode                                      *)
(***************************************************************************)
\* the log files the scan is to visit
ScanTargets ==
  LET cands == PathCandidates(1, 1, filesystem, dir_listing)
  IN  {cands[c].file_path : c \in 1..Len(cands)}

\* the file cannot be read or parsed: a failed source
SourceFails(path) ==
  \/ ~filesystem[path].readable
  \/ HasError(parse_log_file(path, filesystem, DOCLING_AVAILABLE))

\* the file can be read and parsed and holds an error keyword
HasData(path) ==
  /\ ~SourceFails(path)
  /\ _contains_recent_errors(filesystem[path].content)

\* the text of the file is in the bundle, under its header
InBundle(path) ==
  \E h \in 1..Len(log_content) :
    /\ StartsWithAt(log_content, FileHeader(path), h)
    /\ StartsWithAt(log_content, filesystem[path].content,
                    h + Len(FileHeader(path)))

JournalInBundle ==
  StartsWithAt(log_content, <<"=","=","="," ">> \o SourceUpper["journal"], 1)

C28_NotePrintedAtMostOnce ==
  /\ [](/\ notes_printed <= 1
        /\ _note_shown <=> notes_printed = 1
        /\ _note_shown <=> \E i \in 1..Len(parsers) : parsers[i].converter)
  /\ [][_note_shown => _note_shown']_vars

C28_SecondParserWitness ==
  /\ Len(parsers) >= 3
  /\ Cardinality({i \in 1..Len(parsers) : parsers[i].converter}) >= 2
  /\ ~parsers[1].converter
  /\ notes_printed = 1
  /\ _note_shown

(***************************************************************************)
(* The animation threads of one spinner                                    *)
(***************************************************************************)
\* C29: for any sequence of start() and stop() calls on one ASCIISpinner at
\* most one animation thread of it is alive at any time: when stop() has
\* returned the previous thread has ended, so a later start() does not run
\* beside it, and a second start() while running makes no new thread.
C29_AtMostOneAnimationThread ==
  /\ threads_alive <= 1
  /\ (/\ spinner_calls # <<>>
      /\ spinner_calls[Len(spinner_calls)] = "stop"
      /\ ~joining) => threads_alive = 0

(***************************************************************************)
(* The categories the classifier returns                                   *)
(***************************************************************************)
\* the categories that have a rule set (error_patterns, lines 62-108)
RuleSetCategories ==
  {error_patterns[i].error_type : i \in 1..Len(error_patterns)}

\* C30: for every input classify_error_type returns one of the seven
\* categories that have a rule set (kernel, selinux, java, systemd,
\* network, boot, container); application, hardware and security are never
\* returned.
C30_OnlyRuleSetCategories ==
  /\ RuleSetCategories =
       {"kernel", "selinux", "java", "systemd", "network", "boot",
        "container"}
  /\ Called("classify_error_type") =>
       /\ error_type \in RuleSetCategories
       /\ error_type \notin {"application", "hardware", "security"}
       /\ error_type = classify_error_type(error_desc, log_content)

C30_NoMatchStillRuleSetWitness ==
  /\ Called("classify_error_type")
  /\ \A i \in 1..Len(scores) : scores[i] = 0
  /\ error_type = "kernel"
====
